---- MODULE Spec2Model ----
(***************************************************************************)
(* Signal-generation pipeline of algo_trade: the indicator engine          *)
(* (core/indicators.py), the Bollinger + Williams %R strategy              *)
(* (services/strategies.py) and the trading service                        *)
(* (services/trading_service.py: analyze_stock, scan_stocks).              *)
(*                                                                         *)
(* Numbers.  Prices and indicator values are exact reals of the form       *)
(* (a + b*sqrt(v)) / d, kept as records [k, a, b, v, d]; k tells a number  *)
(* ("num") from NaN/pd.NA ("nan") and from Python's None ("none").  d = 0  *)
(* with a # 0 is the +/-inf that a float division by zero produces.        *)
(* Float rounding is not modelled: comparisons are exact.                  *)
(***************************************************************************)
EXTENDS Integers, Sequences, FiniteSets, TLC

VARIABLES
    pc,            \* which call is in progress
    strategy,      \* the BollingerWilliamsStrategy instance (its five fields)
    stock_codes,   \* scan_stocks: the argument
    pos,           \* scan_stocks: how many codes the for loop has taken
    results,       \* scan_stocks: the local list being built
    returned,      \* what the last finished call handed to its caller
    call,          \* the analysis that ran last: symbol, collaborator behaviour, outcome
    latest_data,   \* the analysis that ran last: df_with_indicators.iloc[-1]
    nrows,         \* the analysis that ran last: len() of the series it looked at
    calls,         \* collaborator / indicator invocations since the current call began
    engine,        \* the indicator function called last: its arguments and its outcome
    service,       \* the TradingService object: its strategy attribute, the one asked for
    order,         \* the order / portfolio request made last: arguments, client calls, outcome
    prepared,      \* _fetch_and_prepare_data called on its own: raw list, outcome
    endpoint,      \* the API request handled last: service calls, HTTP response
    kis,           \* core.kis_api globals: token, expiry, clock, last request
    scans          \* two scan_stocks calls in progress on one service: each call's locals

vars == <<pc, strategy, stock_codes, pos, results, returned, call, latest_data, nrows, calls,
          engine, service, order, prepared, endpoint, kis, scans>>

----------------------------------------------------------------------------
(* Bounds of the model *)

\* longest series handed to BollingerWilliamsStrategy.analyze directly
MaxLen == 3
\* longest raw payload the brokerage mock returns
MaxRows == 20
\* longest stock_codes list given to scan_stocks
MaxScan == 2
\* seconds the clock may reach, and API requests made in one process
MaxClock == 240
MaxRequests == 3

(* Program constants *)
BB_WINDOW == 20
BB_STD_DEV == 2
WILLIAMS_R_PERIOD == 14
WILLIAMS_R_OVERSOLD == -80
WILLIAMS_R_OVERBOUGHT == -20
\* kis_api.py:61: the token is renewed this many seconds before it runs out
TOKEN_MARGIN == 60

----------------------------------------------------------------------------
(* Exact numbers *)

Num(n) == [k |-> "num", a |-> n, b |-> 0, v |-> 0, d |-> 1]
NaN == [k |-> "nan", a |-> 0, b |-> 0, v |-> 0, d |-> 1]
None == [k |-> "none", a |-> 0, b |-> 0, v |-> 0, d |-> 1]
Real(a, b, v, d) == [k |-> "num", a |-> a, b |-> b, v |-> v, d |-> d]

\* the cell of a column the frame does not have
Missing == [k |-> "missing", a |-> 0, b |-> 0, v |-> 0, d |-> 1]

\* how a call ends: a returned value or a raised exception
Return(value) == [kind |-> "return", value |-> value, msg |-> ""]
Raise(msg) == [kind |-> "raise", value |-> <<>>, msg |-> msg]

\* no call has ended yet
NoOutcome == [kind |-> "none", value |-> <<>>, msg |-> ""]

\* pandas isnull(): NaN, pd.NA and None are null; +/-inf is not
IsNull(x) == x.k # "num"

Max(x, y) == IF x >= y THEN x ELSE y

\* n < b * sqrt(v), for integers n, b and v >= 0
LtSurd(n, b, v) ==
    IF b >= 0
    THEN n < 0 \/ n * n < b * b * v
    ELSE n < 0 /\ n * n > b * b * v

\* x < y for two present numbers (d >= 0; the two share v when both have b # 0)
Less(x, y) ==
    LET n == x.a * y.d - y.a * x.d
        c == y.b * x.d - x.b * y.d
        v == IF x.b # 0 THEN x.v ELSE y.v
    IN LtSurd(n, c, v)

----------------------------------------------------------------------------
(* Indicator engine: core/indicators.py.  A frame is a sequence of rows; a  *)
(* row is a record of the index label (date) and the columns.               *)

RECURSIVE SumClose(_, _, _)
SumClose(data, lo, hi) ==
    IF lo > hi THEN 0 ELSE data[lo].close.a + SumClose(data, lo + 1, hi)

RECURSIVE SumSqClose(_, _, _)
SumSqClose(data, lo, hi) ==
    IF lo > hi THEN 0
    ELSE data[lo].close.a * data[lo].close.a + SumSqClose(data, lo + 1, hi)

RECURSIVE MaxHigh(_, _, _)
MaxHigh(data, lo, hi) ==
    IF lo = hi THEN data[lo].high.a ELSE Max(data[lo].high.a, MaxHigh(data, lo + 1, hi))

RECURSIVE MinLow(_, _, _)
MinLow(data, lo, hi) ==
    IF lo = hi THEN data[lo].low.a
    ELSE LET m == MinLow(data, lo + 1, hi) IN IF data[lo].low.a <= m THEN data[lo].low.a ELSE m

Cell(row, col) ==
    IF col = "close" THEN row.close ELSE IF col = "high" THEN row.high ELSE row.low

\* col in data.columns
HasColumn(data, col) == \A i \in 1..Len(data) : Cell(data[i], col).k # "missing"

\* rolling(window, min_periods=window): a value only where the trailing window
\* is complete and holds no null
WindowFull(data, i, window, col) ==
    /\ i >= window
    /\ \A j \in (i - window + 1)..i : ~IsNull(Cell(data[j], col))

\* bands without the deviation term: hband and lband both on the mean
BandRow_Flat(data, i, window, window_dev) ==
    IF ~WindowFull(data, i, window, "close")
    THEN [bb_mavg |-> NaN, bb_hband |-> NaN, bb_lband |-> NaN,
          bb_pband |-> NaN, bb_wband |-> NaN]
    ELSE LET S == SumClose(data, i - window + 1, i)
         IN [bb_mavg |-> Real(S, 0, 0, window),
             bb_hband |-> Real(S, 0, 0, window),
             bb_lband |-> Real(S, 0, 0, window),
             bb_pband |-> NaN,
             bb_wband |-> NaN]

\* bands with the two signs exchanged: hband below mavg, lband above it
BandRow_Swapped(data, i, window, window_dev) ==
    IF ~WindowFull(data, i, window, "close")
    THEN [bb_mavg |-> NaN, bb_hband |-> NaN, bb_lband |-> NaN,
          bb_pband |-> NaN, bb_wband |-> NaN]
    ELSE LET S == SumClose(data, i - window + 1, i)
             SS == SumSqClose(data, i - window + 1, i)
             V == window * SS - S * S
         IN [bb_mavg |-> Real(S, 0, 0, window),
             bb_hband |-> Real(S, 0 - window_dev, V, window),
             bb_lband |-> Real(S, window_dev, V, window),
             bb_pband |-> NaN,
             bb_wband |-> NaN]

\* ta BollingerBands: mavg = rolling mean, mstd = rolling std(ddof=0),
\* hband/lband = mavg +/- window_dev * mstd.  With S the window's sum and SS its
\* sum of squares, mstd = sqrt(w*SS - S*S) / w.
BandRow(data, i, window, window_dev) ==
    IF ~WindowFull(data, i, window, "close")
    THEN [bb_mavg |-> NaN, bb_hband |-> NaN, bb_lband |-> NaN,
          bb_pband |-> NaN, bb_wband |-> NaN]
    ELSE LET S == SumClose(data, i - window + 1, i)
             SS == SumSqClose(data, i - window + 1, i)
             V == window * SS - S * S
             c == data[i].close.a
         IN [bb_mavg |-> Real(S, 0, 0, window),
             bb_hband |-> Real(S, window_dev, V, window),
             bb_lband |-> Real(S, 0 - window_dev, V, window),
             \* (close - lband) / (hband - lband), rationalised; x/0 where the
             \* band has no width
             bb_pband |-> IF window_dev * V = 0
                          THEN IF c * window = S THEN NaN ELSE Real(c * window - S, 0, 0, 0)
                          ELSE IF window_dev > 0
                          THEN Real(window_dev * V, c * window - S, V, 2 * window_dev * V)
                          ELSE Real(0 - window_dev * V, S - c * window, V,
                                    0 - 2 * window_dev * V),
             \* (hband - lband) / mavg * 100; 0/0 where every close is 0
             bb_wband |-> IF S = 0 THEN NaN ELSE Real(0, 200 * window_dev, V, S)]

\* a short series' bands filled with zeros instead of nulls
NoBands_Zero ==
    [bb_mavg |-> Num(0), bb_hband |-> Num(0), bb_lband |-> Num(0), bb_pband |-> Num(0),
     bb_wband |-> Num(0)]

NoBands ==
    [bb_mavg |-> NaN, bb_hband |-> NaN, bb_lband |-> NaN, bb_pband |-> NaN, bb_wband |-> NaN]

WithBands(row, bands) ==
    [date |-> row.date, close |-> row.close, high |-> row.high, low |-> row.low,
     bb_mavg |-> bands.bb_mavg, bb_hband |-> bands.bb_hband, bb_lband |-> bands.bb_lband,
     bb_pband |-> bands.bb_pband, bb_wband |-> bands.bb_wband]

\* the frame's first upto rows, each with its five bb_ columns
RECURSIVE BandRows(_, _, _, _, _)
BandRows(data, short, window, window_dev, upto) ==
    IF upto = 0 THEN <<>>
    ELSE Append(BandRows(data, short, window, window_dev, upto - 1),
                WithBands(data[upto],
                          IF short THEN NoBands
                          ELSE BandRow(data, upto, window, window_dev)))

calculate_bollinger_bands(data, window, window_dev) ==
    IF ~HasColumn(data, "close")
    THEN Raise("Column 'close' not found in DataFrame for Bollinger Bands calculation.")
    ELSE Return(BandRows(data, Len(data) < window, window, window_dev, Len(data)))

\* Williams %R without the minus sign: 100 * (hh - close) / (hh - ll)
WrRow_Unsigned(data, i, period) ==
    IF \/ ~WindowFull(data, i, period, "high")
       \/ ~WindowFull(data, i, period, "low")
       \/ IsNull(data[i].close)
    THEN NaN
    ELSE LET hh == MaxHigh(data, i - period + 1, i)
             ll == MinLow(data, i - period + 1, i)
             num == 100 * (hh - data[i].close.a)
             den == hh - ll
         IN IF den = 0 /\ num = 0 THEN NaN
            ELSE IF den < 0 THEN Real(0 - num, 0, 0, 0 - den)
            ELSE Real(num, 0, 0, den)

\* ta WilliamsRIndicator: -100 * (hh - close) / (hh - ll) over the trailing lbp rows
WrRow(data, i, period) ==
    IF \/ ~WindowFull(data, i, period, "high")
       \/ ~WindowFull(data, i, period, "low")
       \/ IsNull(data[i].close)
    THEN NaN
    ELSE LET hh == MaxHigh(data, i - period + 1, i)
             ll == MinLow(data, i - period + 1, i)
             num == (0 - 100) * (hh - data[i].close.a)
             den == hh - ll
         IN IF den = 0 /\ num = 0 THEN NaN
            ELSE IF den < 0 THEN Real(0 - num, 0, 0, 0 - den)
            ELSE Real(num, 0, 0, den)

\* df['wr'] = ...: the row's columns are kept, wr is added (or replaced)
WithWr(row, wr) == [wr |-> wr] @@ row

\* the frame's first upto rows, each with its wr column
RECURSIVE WrRows(_, _, _, _)
WrRows(data, short, period, upto) ==
    IF upto = 0 THEN <<>>
    ELSE Append(WrRows(data, short, period, upto - 1),
                WithWr(data[upto], IF short THEN NaN ELSE WrRow(data, upto, period)))

calculate_williams_r(data, period) ==
    IF \E col \in {"high", "low", "close"} : ~HasColumn(data, col)
    THEN Raise("DataFrame must contain ['high', 'low', 'close'] columns for Williams %R calculation.")
    ELSE Return(WrRows(data, Len(data) < period, period, Len(data)))

\* data['bb_mavg'] = ... / data['wr'] = ... ; return data: the columns are
\* assigned on the frame object that was passed and that object is returned,
\* so after a return the caller's frame is the returned frame; a raise comes
\* before any assignment
PassedFrameAfter(data, outcome) ==
    IF outcome.kind = "return" THEN outcome.value ELSE data

----------------------------------------------------------------------------
(* Strategy: services/strategies.py *)

\* Timestamp.isoformat() of an index label
isoformat(label) == [k |-> "iso", day |-> label.day]

\* a reason string: the fixed text and the values formatted into it
Reason(text, args) == [text |-> text, args |-> args]

\* BollingerWilliamsStrategy.__init__
BollingerWilliamsStrategy(bb_window, bb_std_dev, wr_period, wr_oversold, wr_overbought) ==
    [bb_window |-> bb_window, bb_std_dev |-> bb_std_dev, wr_period |-> wr_period,
     wr_oversold |-> wr_oversold, wr_overbought |-> wr_overbought]

DefaultStrategy ==
    BollingerWilliamsStrategy(BB_WINDOW, BB_STD_DEV, WILLIAMS_R_PERIOD,
                              WILLIAMS_R_OVERSOLD, WILLIAMS_R_OVERBOUGHT)

\* a null check that leaves 'wr' out of the required columns
AnyRequiredNull_NoWr(latest) ==
    IsNull(latest.close) \/ IsNull(latest.bb_lband) \/ IsNull(latest.bb_hband)

\* latest_data[required_indicator_cols].isnull().any()
AnyRequiredNull(latest) ==
    IsNull(latest.close) \/ IsNull(latest.bb_lband) \/ IsNull(latest.bb_hband)
        \/ IsNull(latest.wr)

\* the BUY test with <= in place of <
StrategyBuy_NonStrict(latest, wr_oversold) ==
    ~Less(latest.bb_lband, latest.close) /\ ~Less(Num(wr_oversold), latest.wr)

\* strategies.py:99  last_close < lower_band and william_r < self.wr_oversold
StrategyBuy(latest, wr_oversold) ==
    Less(latest.close, latest.bb_lband) /\ Less(latest.wr, Num(wr_oversold))

\* strategies.py:104  last_close > upper_band and william_r > self.wr_overbought
StrategySell(latest, wr_overbought) ==
    Less(latest.bb_hband, latest.close) /\ Less(Num(wr_overbought), latest.wr)

\* strategies.py:95-106: if / elif over the two conditions, HOLD by default
StrategyDecide(latest, self) ==
    IF StrategyBuy(latest, self.wr_oversold)
    THEN [signal |-> "BUY",
          reason |-> Reason("price below lower BB and Williams %R oversold",
                            <<latest.close, latest.bb_lband, latest.wr,
                              Num(self.wr_oversold)>>)]
    ELSE IF StrategySell(latest, self.wr_overbought)
    THEN [signal |-> "SELL",
          reason |-> Reason("price above upper BB and Williams %R overbought",
                            <<latest.close, latest.bb_hband, latest.wr,
                              Num(self.wr_overbought)>>)]
    ELSE [signal |-> "HOLD", reason |-> Reason("no clear signal", <<>>)]

\* a length test that looks at the Bollinger window alone
StrategyTooShort_WindowOnly(data, self) ==
    Len(data) = 0 \/ Len(data) < self.bb_window

\* strategies.py:63  data.empty or len(data) < max(self.bb_window, self.wr_period)
StrategyTooShort(data, self) ==
    Len(data) = 0 \/ Len(data) < Max(self.bb_window, self.wr_period)

\* strategies.py:71-72  both indicators on a copy; an exception of the first
\* ends the call before the second
StrategyIndicators(data, self) ==
    LET df_with_bb == calculate_bollinger_bands(data, self.bb_window, self.bb_std_dev)
    IN IF df_with_bb.kind = "raise" THEN df_with_bb
       ELSE calculate_williams_r(df_with_bb.value, self.wr_period)

\* strategies.py:74  iloc[-1]
StrategyLatest(df_with_indicators) == df_with_indicators[Len(df_with_indicators)]

StrategyNoData(stock_code, current_price) ==
    [stock_code |-> stock_code, price_at_signal |-> None,
     current_market_price |-> current_price, signal |-> "NO_DATA",
     reason |-> Reason("insufficient historical data", <<>>), indicators |-> <<>>]

StrategyNoIndicator(stock_code, latest, current_price) ==
    [stock_code |-> stock_code, price_at_signal |-> latest.close,
     current_market_price |-> current_price, signal |-> "NO_INDICATOR",
     reason |-> Reason("indicator computation failed for latest period", <<>>),
     indicators |-> [bollinger_lower |-> latest.bb_lband,
                     bollinger_middle |-> latest.bb_mavg,
                     bollinger_upper |-> latest.bb_hband,
                     williams_r |-> latest.wr]]

\* a result that reports the last close as the current market price
StrategySignal_CloseAsCurrent(stock_code, latest, current_price, self) ==
    LET dec == StrategyDecide(latest, self)
    IN [stock_code |-> stock_code,
        timestamp |-> isoformat(latest.date),
        price_at_signal |-> latest.close,
        current_market_price |-> latest.close,
        signal |-> dec.signal,
        reason |-> dec.reason,
        indicators |-> [bollinger_lower |-> latest.bb_lband,
                        bollinger_middle |-> latest.bb_mavg,
                        bollinger_upper |-> latest.bb_hband,
                        williams_r |-> latest.wr]]

\* strategies.py:108-121
StrategySignal(stock_code, latest, current_price, self) ==
    LET dec == StrategyDecide(latest, self)
    IN [stock_code |-> stock_code,
        timestamp |-> isoformat(latest.date),
        price_at_signal |-> latest.close,
        current_market_price |-> current_price,
        signal |-> dec.signal,
        reason |-> dec.reason,
        indicators |-> [bollinger_lower |-> latest.bb_lband,
                        bollinger_middle |-> latest.bb_mavg,
                        bollinger_upper |-> latest.bb_hband,
                        williams_r |-> latest.wr]]

\* latest_data where no last row has been taken
NoRow == [date |-> [k |-> "none", day |-> 0], close |-> None]

\* a strategy that catches what the indicators raise and answers with an
\* ERROR result
StrategyRun_Catch(self, stock_code, data, current_price) ==
    IF StrategyTooShort(data, self)
    THEN [outcome |-> Return(StrategyNoData(stock_code, current_price)),
          latest |-> NoRow, computed |-> 0]
    ELSE LET ind == StrategyIndicators(data, self)
         IN IF ind.kind = "raise"
            THEN [outcome |-> Return([stock_code |-> stock_code, signal |-> "ERROR",
                                      reason |-> Reason(ind.msg, <<>>)]),
                  latest |-> NoRow, computed |-> 1]
            ELSE LET latest == StrategyLatest(ind.value)
                 IN [outcome |-> Return(IF AnyRequiredNull(latest)
                                        THEN StrategyNoIndicator(stock_code, latest,
                                                                 current_price)
                                        ELSE StrategySignal(stock_code, latest,
                                                            current_price, self)),
                     latest |-> latest, computed |-> 1]

\* One run of BollingerWilliamsStrategy.analyze: its outcome (the dict it
\* returns, or the exception an indicator raised), the last indicator row it
\* looked at, and whether it computed indicators.
StrategyRun(self, stock_code, data, current_price) ==
    IF StrategyTooShort(data, self)
    THEN [outcome |-> Return(StrategyNoData(stock_code, current_price)),
          latest |-> NoRow, computed |-> 0]
    ELSE LET ind == StrategyIndicators(data, self)
         IN IF ind.kind = "raise"
            THEN [outcome |-> ind, latest |-> NoRow, computed |-> 1]
            ELSE LET latest == StrategyLatest(ind.value)
                 IN [outcome |-> Return(IF AnyRequiredNull(latest)
                                        THEN StrategyNoIndicator(stock_code, latest,
                                                                 current_price)
                                        ELSE StrategySignal(stock_code, latest,
                                                            current_price, self)),
                     latest |-> latest, computed |-> 1]

\* BollingerWilliamsStrategy.analyze
StrategyAnalyze(self, stock_code, data, current_price) ==
    StrategyRun(self, stock_code, data, current_price).outcome

----------------------------------------------------------------------------
(* Brokerage collaborator as the service sees it (self.kis_client): what one *)
(* get_stock_price / get_historical_stock_data call does.                    *)

\* a raw payload field that is not a number ("N/A", "")
Text == [k |-> "text", a |-> 0, b |-> 0, v |-> 0, d |-> 1]

\* raw 'YYYYMMDD' strings, and one that does not match the format
Ymd(day) == [k |-> "ymd", day |-> day]
BadDate == [k |-> "bad", day |-> 0]

\* close of the rows before the last two of a payload
BasePrice == 2

PriceResponses ==
    {[kind |-> "raise", v |-> 0], [kind |-> "None", v |-> 0], [kind |-> "badstr", v |-> 0],
     [kind |-> "float", v |-> 7], [kind |-> "str", v |-> 7]}

----------------------------------------------------------------------------
(* The KIS client itself: core/kis_api.py *)

\* what a request meets: ACCESS_TOKEN as the call finds it (none: unset or
\* expired), whether a token request succeeds, and what the HTTP request does
\* (answers, fails in transport, answers with an HTTP error status, answers
\* with rt_cd other than '0')
KisEnvs ==
    [token : {"none", "valid"}, auth : {"ok", "fail"},
     net : {"ok", "transport", "http", "rt_cd"}]

\* kis_api.py:72-81  _ensure_token_valid
ensure_token_valid(env) ==
    IF env.token = "none" /\ env.auth = "fail"
    THEN Raise("Failed to get or refresh KIS access token.")
    ELSE Return(TRUE)

\* kis_api.py:83-127  _make_api_request: the decoded response, or the exception
make_api_request(env, response_data) ==
    LET token == ensure_token_valid(env)
    IN IF token.kind = "raise" THEN token
       ELSE IF env.net = "transport" THEN Raise("Request error")
       ELSE IF env.net = "http" THEN Raise("HTTP error")
       ELSE IF env.net = "rt_cd" THEN Raise("KIS API Error: Unknown API error")
       ELSE Return(response_data)

\* the list [] as get_historical_stock_data returns it, with what led to it
EmptyList(cause) ==
    [kind |-> "data", n |-> 0, p |-> 0, c |-> 0, newest_first |-> FALSE, bad_date |-> FALSE,
     missing |-> "", net |-> cause]

\* kis_api.py:164-209  get_historical_stock_data: the request and the float()
\* conversions all sit in one try whose except returns []
get_historical_stock_data(env, output1) ==
    LET data == make_api_request(env, output1)
    IN IF data.kind = "raise"
       THEN EmptyList(IF ensure_token_valid(env).kind = "raise" THEN "auth" ELSE env.net)
       ELSE IF data.value.n > 0 /\ (data.value.c < 0 \/ data.value.p < 0)
       THEN EmptyList("parse")
       ELSE [data.value EXCEPT !.net = "ok"]

\* kis_api.py:211-265  place_order.  The token check (l.221) and the order_type
\* check (l.226-230) come before the try; the request is inside it.
place_order(env, stock_code, order_type, quantity, price, order_condition) ==
    LET token == ensure_token_valid(env)
    IN IF token.kind = "raise" THEN token
       ELSE IF order_type \notin {"01", "02"}
       THEN Raise("Invalid order_type. Must be '01' (Sell) or '02' (Buy).")
       ELSE LET payload == [PDNO |-> stock_code, ORD_DVSN |-> order_condition,
                            ORD_QTY |-> quantity,
                            ORD_UNPR |-> IF price > 0 /\ order_condition = "00"
                                         THEN price ELSE 0]
                response_data == make_api_request([env EXCEPT !.token = "valid"],
                                                  [output |-> [ODNO |-> "0000000001"],
                                                   sent |-> payload])
            IN IF response_data.kind = "raise"
               THEN Return([success |-> FALSE, error |-> response_data.msg])
               ELSE Return([success |-> TRUE, order_id |-> response_data.value.output.ODNO,
                            details |-> response_data.value.output])

\* kis_api.py:267-337  get_account_balance: request and parsing in one try
get_account_balance(env) ==
    LET data == make_api_request(env, [output1 |-> <<>>, output2 |-> <<>>])
    IN IF data.kind = "raise"
       THEN Return([holdings |-> <<>>, summary |-> <<>>, error |-> data.msg])
       ELSE Return([holdings |-> data.value.output1, summary |-> data.value.output2])

\* TOKEN_EXPIRY_TIME = None
NoExpiry == -1

\* what the token endpoint does with a token request: it grants a token for
\* expires_in seconds (longer than the renewal margin), or the request fails
\* (transport error or HTTP error status, both RequestException)
TokenAnswers ==
    [kind : {"ok"}, expires_in : {2 * TOKEN_MARGIN, 3 * TOKEN_MARGIN}]
    \cup [kind : {"fail"}, expires_in : {0}]

\* kis_api.py:35-70  _get_access_token: its return value and the two globals
\* as it leaves them
get_access_token(now, answer) ==
    IF answer.kind = "ok"
    THEN [ok |-> TRUE, ACCESS_TOKEN |-> "held",
          TOKEN_EXPIRY_TIME |-> now + answer.expires_in - TOKEN_MARGIN]
    ELSE [ok |-> FALSE, ACCESS_TOKEN |-> "none", TOKEN_EXPIRY_TIME |-> NoExpiry]

\* a token check that never looks at the expiry time
TokenAsFound_NoExpiry(k) ==
    IF k.ACCESS_TOKEN = "none" THEN "none" ELSE "valid"

\* kis_api.py:77: not ACCESS_TOKEN or (TOKEN_EXPIRY_TIME and now >= TOKEN_EXPIRY_TIME)
TokenAsFound(k) ==
    IF \/ k.ACCESS_TOKEN = "none"
       \/ (k.TOKEN_EXPIRY_TIME # NoExpiry /\ k.now >= k.TOKEN_EXPIRY_TIME)
    THEN "none" ELSE "valid"

\* the API functions: each sends its one request through _make_api_request
\* (place_order checks the token once more before, l.221)
KisFunctions ==
    {"get_stock_price", "get_historical_stock_data", "place_order", "get_account_balance"}

\* one API function called on the module in state k: the globals afterwards,
\* whether a token was requested, whether the request to the trading API went
\* out (SESSION.get / SESSION.post was reached), and how _make_api_request ended
ApiCall(k, fn, answer, net) ==
    LET found == TokenAsFound(k)
        got == IF found = "none" THEN get_access_token(k.now, answer)
               ELSE [ok |-> TRUE, ACCESS_TOKEN |-> k.ACCESS_TOKEN,
                     TOKEN_EXPIRY_TIME |-> k.TOKEN_EXPIRY_TIME]
        env == [token |-> found, auth |-> IF answer.kind = "ok" THEN "ok" ELSE "fail",
                net |-> net]
    IN [ACCESS_TOKEN |-> got.ACCESS_TOKEN,
        TOKEN_EXPIRY_TIME |-> got.TOKEN_EXPIRY_TIME,
        now |-> k.now,
        n |-> k.n + 1,
        last |-> [fn |-> fn, token_requested |-> (found = "none"),
                  token_granted |-> (found = "none" /\ got.ok),
                  sent |-> (ensure_token_valid(env).kind = "return"),
                  outcome |-> make_api_request(env, <<>>).kind]]

\* the daily records the KIS server answers with: a full window, the last
\* close a number or not
KisPayloads ==
    [kind : {"data"}, n : {BB_WINDOW}, p : {BasePrice}, c : {-1, 1}, newest_first : {TRUE},
     bad_date : {FALSE}, missing : {""}, net : {"n/a"}]

----------------------------------------------------------------------------
(* What one history request of the service's client does *)

\* a payload of n daily records: close BasePrice, then p on the day before the
\* last and c on the last day (high = low = close); c = -1 stands for a field
\* that is no number.  Records come oldest or newest first, and the newest
\* record's date may be malformed.  The request may raise, the payload may be
\* empty, one record short of the Bollinger window, or long enough; its
\* records may all lack the 'close' key.  The client may be kis_api itself.
HistResponses ==
    {[kind |-> "raise", n |-> 0, p |-> 0, c |-> 0, newest_first |-> FALSE, bad_date |-> FALSE,
      missing |-> "", net |-> "n/a"]}
    \cup [kind : {"data"}, n : {0}, p : {0}, c : {0}, newest_first : {FALSE},
          bad_date : {FALSE}, missing : {""}, net : {"n/a"}]
    \cup [kind : {"data"}, n : {BB_WINDOW - 1}, p : {BasePrice}, c : {1},
          newest_first : BOOLEAN, bad_date : {FALSE}, missing : {""}, net : {"n/a"}]
    \cup [kind : {"data"}, n : BB_WINDOW..MaxRows, p : {0, BasePrice},
          c : {-1, 0, 1, 3}, newest_first : BOOLEAN, bad_date : {FALSE}, missing : {""}, net : {"n/a"}]
    \cup [kind : {"data"}, n : {BB_WINDOW}, p : {BasePrice}, c : {1},
          newest_first : {FALSE}, bad_date : {TRUE}, missing : {""}, net : {"n/a"}]
    \cup [kind : {"data"}, n : {BB_WINDOW}, p : {BasePrice}, c : {1},
          newest_first : {FALSE}, bad_date : {FALSE}, missing : {"close"}, net : {"n/a"}]
    \cup {get_historical_stock_data(env, output1) : env \in KisEnvs, output1 \in KisPayloads}

NotCalled ==
    [kind |-> "not_called", n |-> 0, p |-> 0, c |-> 0, newest_first |-> FALSE,
     bad_date |-> FALSE, missing |-> "", net |-> "n/a"]

RawCell(x) == IF x < 0 THEN Text ELSE Num(x)

RawRecord(h, i) ==
    LET x == IF i = h.n THEN h.c ELSE IF i = h.n - 1 THEN h.p ELSE BasePrice
        hl == IF x < 0 THEN BasePrice ELSE x
    IN [date |-> IF h.bad_date /\ i = h.n THEN BadDate ELSE Ymd(i),
        close |-> IF h.missing = "close" THEN Missing ELSE RawCell(x),
        high |-> RawCell(hl), low |-> RawCell(hl)]

\* the list get_historical_stock_data returns
RawData(h) ==
    [i \in 1..h.n |-> RawRecord(h, IF h.newest_first THEN h.n + 1 - i ELSE i)]

----------------------------------------------------------------------------
(* Trading service: services/trading_service.py *)

\* pd.to_numeric(errors='coerce')
to_numeric(x) == IF x.k = "num" THEN x ELSE NaN

\* pd.to_datetime(format='%Y%m%d') of one value
to_datetime(x) == [k |-> "ts", day |-> x.day]

RECURSIVE InsertByDate(_, _)
InsertByDate(row, sorted) ==
    IF sorted = <<>> THEN <<row>>
    ELSE LET last == sorted[Len(sorted)]
         IN IF last.date.day <= row.date.day THEN Append(sorted, row)
            ELSE Append(InsertByDate(row, SubSeq(sorted, 1, Len(sorted) - 1)), last)

\* df.sort_values(by='date')
RECURSIVE SortByDate(_, _)
SortByDate(rows, upto) ==
    IF upto = 0 THEN <<>> ELSE InsertByDate(rows[upto], SortByDate(rows, upto - 1))

\* types and index, but the rows left in the order of the payload
PrepareRows_Unsorted(raw_data) ==
    [i \in 1..Len(raw_data) |->
        [date |-> to_datetime(raw_data[i].date),
         close |-> to_numeric(raw_data[i].close),
         high |-> to_numeric(raw_data[i].high),
         low |-> to_numeric(raw_data[i].low)]]

\* trading_service.py:63-70: types, sort, index
PrepareRows(raw_data) ==
    LET typed == [i \in 1..Len(raw_data) |->
                     [date |-> to_datetime(raw_data[i].date),
                      close |-> to_numeric(raw_data[i].close),
                      high |-> to_numeric(raw_data[i].high),
                      low |-> to_numeric(raw_data[i].low)]]
    IN SortByDate(typed, Len(typed))

\* trading_service.py:54-73: what _fetch_and_prepare_data does with the list the
\* client returned
PrepareData(raw_data) ==
    IF Len(raw_data) = 0 THEN Return(<<>>)
    ELSE IF \E i \in 1..Len(raw_data) : raw_data[i].date.k = "bad"
    THEN Raise("time data does not match format")
    \* df[col] of a column no record has (trading_service.py:67)
    ELSE IF ~HasColumn(raw_data, "high") THEN Raise("'high'")
    ELSE IF ~HasColumn(raw_data, "low") THEN Raise("'low'")
    ELSE IF ~HasColumn(raw_data, "close") THEN Raise("'close'")
    ELSE Return(PrepareRows(raw_data))

\* TradingService._fetch_and_prepare_data
FetchAndPrepare(h) ==
    IF h.kind = "raise" THEN Raise("history request failed")
    ELSE PrepareData(RawData(h))

\* trading_service.py:127
ServiceBuy(latest) ==
    Less(latest.close, latest.bb_lband) /\ Less(latest.wr, Num(WILLIAMS_R_OVERSOLD))

\* trading_service.py:133
ServiceSell(latest) ==
    Less(latest.bb_hband, latest.close) /\ Less(Num(WILLIAMS_R_OVERBOUGHT), latest.wr)

\* trading_service.py:122-135
ServiceDecide(latest) ==
    IF ServiceBuy(latest)
    THEN [signal |-> "BUY",
          reason |-> Reason("Price below lower BB and Williams %R indicates oversold.",
                            <<latest.close, latest.bb_lband, latest.wr,
                              Num(WILLIAMS_R_OVERSOLD)>>)]
    ELSE IF ServiceSell(latest)
    THEN [signal |-> "SELL",
          reason |-> Reason("Price above upper BB and Williams %R indicates overbought.",
                            <<latest.close, latest.bb_hband, latest.wr,
                              Num(WILLIAMS_R_OVERBOUGHT)>>)]
    ELSE [signal |-> "HOLD",
          reason |-> Reason("No clear signal based on current strategy.", <<>>)]

\* trading_service.py:90
ServiceNoPrice(stock_code) ==
    [stock_code |-> stock_code, price |-> None, signal |-> "ERROR",
     reason |-> Reason("Failed to fetch current price.", <<>>)]

\* a short series reported like a missing price
ServiceNoData_AsError(stock_code, current_price) ==
    [stock_code |-> stock_code, price |-> current_price, signal |-> "ERROR",
     reason |-> Reason("Insufficient historical data.", <<>>)]

\* trading_service.py:99
ServiceNoData(stock_code, current_price) ==
    [stock_code |-> stock_code, price |-> current_price, signal |-> "NO_DATA",
     reason |-> Reason("Insufficient historical data.", <<>>)]

\* trading_service.py:112
ServiceNoIndicator(stock_code, current_price) ==
    [stock_code |-> stock_code, price |-> current_price, signal |-> "NO_INDICATOR",
     reason |-> Reason("Failed to calculate indicators for the latest period.", <<>>)]

\* a service result that reports the current market price as the price at
\* the signal
ServiceSignal_CurrentAsSignal(stock_code, latest, current_price) ==
    LET dec == ServiceDecide(latest)
    IN [stock_code |-> stock_code,
        timestamp |-> isoformat(latest.date),
        price_at_signal |-> current_price,
        current_market_price |-> current_price,
        signal |-> dec.signal,
        reason |-> dec.reason,
        indicators |-> [bollinger_lower |-> latest.bb_lband,
                        bollinger_middle |-> latest.bb_mavg,
                        bollinger_upper |-> latest.bb_hband,
                        williams_r |-> latest.wr]]

\* trading_service.py:140-153
ServiceSignal(stock_code, latest, current_price) ==
    LET dec == ServiceDecide(latest)
    IN [stock_code |-> stock_code,
        timestamp |-> isoformat(latest.date),
        price_at_signal |-> latest.close,
        current_market_price |-> current_price,
        signal |-> dec.signal,
        reason |-> dec.reason,
        indicators |-> [bollinger_lower |-> latest.bb_lband,
                        bollinger_middle |-> latest.bb_mavg,
                        bollinger_upper |-> latest.bb_hband,
                        williams_r |-> latest.wr]]

\* trading_service.py:97
ServiceTooShort(df_history) ==
    Len(df_history) = 0 \/ Len(df_history) < Max(BB_WINDOW, WILLIAMS_R_PERIOD)

\* trading_service.py:102-103
ServiceIndicators(df_history) ==
    LET df_with_bb == calculate_bollinger_bands(df_history, BB_WINDOW, BB_STD_DEV)
    IN IF df_with_bb.kind = "raise" THEN df_with_bb
       ELSE calculate_williams_r(df_with_bb.value, WILLIAMS_R_PERIOD)

\* trading_service.py:106
ServiceLatest(df_with_indicators) == df_with_indicators[Len(df_with_indicators)]

\* One run of analyze_stock: its outcome (a returned dict or a raised
\* exception), the last indicator row it looked at, the length of the series,
\* and which of its steps ran.
Run(outcome, latest, n, hist, fetched, computed) ==
    [outcome |-> outcome, latest |-> latest, nrows |-> n, hist |-> hist,
     fetched |-> fetched, computed |-> computed]

\* trading_service.py:92-153: the part after the current price is known
AnalyzeWithPrice(stock_code, current_price, h) ==
    LET fetched == FetchAndPrepare(h)
    IN IF fetched.kind = "raise"
       THEN Run(Raise(fetched.msg), NoRow, 0, h, 1, 0)
       ELSE LET df_history == fetched.value
            IN IF ServiceTooShort(df_history)
               THEN Run(Return(ServiceNoData(stock_code, current_price)),
                        NoRow, Len(df_history), h, 1, 0)
               ELSE LET ind == ServiceIndicators(df_history)
                    IN IF ind.kind = "raise"
                       THEN Run(ind, NoRow, Len(df_history), h, 1, 1)
                       ELSE LET latest == ServiceLatest(ind.value)
                            IN IF AnyRequiredNull(latest)
                               THEN Run(Return(ServiceNoIndicator(stock_code,
                                                                  current_price)),
                                        latest, Len(df_history), h, 1, 1)
                               ELSE Run(Return(ServiceSignal(stock_code, latest,
                                                             current_price)),
                                        latest, Len(df_history), h, 1, 1)

\* analyze_stock that goes on with 0.0 when there is no price
analyze_stock_ZeroPrice(stock_code, pr, h) ==
    IF pr.kind = "raise"
    THEN Run(Raise("price request failed"), NoRow, 0, NotCalled, 0, 0)
    ELSE IF pr.kind = "None"
    THEN AnalyzeWithPrice(stock_code, Num(0), h)
    ELSE IF pr.kind = "badstr"
    THEN Run(Raise("could not convert string to float"), NoRow, 0, NotCalled, 0, 0)
    ELSE AnalyzeWithPrice(stock_code, Num(pr.v), h)

\* analyze_stock that treats a price it cannot convert as a missing price
analyze_stock_Swallow(stock_code, pr, h) ==
    IF pr.kind = "raise"
    THEN Run(Raise("price request failed"), NoRow, 0, NotCalled, 0, 0)
    ELSE IF pr.kind \in {"None", "badstr"}
    THEN Run(Return(ServiceNoPrice(stock_code)), NoRow, 0, NotCalled, 0, 0)
    ELSE AnalyzeWithPrice(stock_code, Num(pr.v), h)

\* TradingService.analyze_stock with the collaborator answering pr to
\* get_stock_price and h to get_historical_stock_data
analyze_stock(stock_code, pr, h) ==
    IF pr.kind = "raise"
    THEN Run(Raise("price request failed"), NoRow, 0, NotCalled, 0, 0)
    ELSE IF pr.kind = "None"
    THEN Run(Return(ServiceNoPrice(stock_code)), NoRow, 0, NotCalled, 0, 0)
    ELSE IF pr.kind = "badstr"
    THEN Run(Raise("could not convert string to float"), NoRow, 0, NotCalled, 0, 0)
    ELSE AnalyzeWithPrice(stock_code, Num(pr.v), h)

\* no strategy object: the attribute is not there, or no strategy was passed
NoStrategy == BollingerWilliamsStrategy(0, 0, 0, 0, 0)

\* self.kis_client: the kis_api module meeting some environment, or a client
\* handed to the constructor whose methods return or raise what they are set to
Clients ==
    {[kind |-> "kis_api", env |-> env, does |-> NoOutcome] : env \in KisEnvs}
    \cup {[kind |-> "injected", env |-> [token |-> "valid", auth |-> "ok", net |-> "ok"],
           does |-> d] :
            d \in {Return([success |-> TRUE, order_id |-> "ORD123", details |-> <<>>]),
                   Raise("client failure")}}

NoClient ==
    [kind |-> "none", env |-> [token |-> "none", auth |-> "fail", net |-> "ok"],
     does |-> NoOutcome]

\* self.kis_client.place_order(**sent)
ClientPlaceOrder(client, sent) ==
    IF client.kind = "kis_api"
    THEN place_order(client.env, sent.stock_code, sent.order_type, sent.quantity,
                     sent.price, sent.order_condition)
    ELSE client.does

\* self.kis_client.get_account_balance()
ClientAccountBalance(client) ==
    IF client.kind = "kis_api" THEN get_account_balance(client.env) ELSE client.does

\* an execute_order that always orders at market price
execute_order_AtMarket(kis_client, stock_code, order_type, quantity, price, order_condition) ==
    LET sent == [stock_code |-> stock_code, order_type |-> order_type,
                 quantity |-> quantity, price |-> 0, order_condition |-> order_condition]
        got == ClientPlaceOrder(kis_client, sent)
    IN [outcome |-> got, received |-> <<sent>>, client_outcome |-> got]

\* trading_service.py:173-189  execute_order: what it returns or raises, the
\* keyword arguments of each place_order call it made, and what place_order
\* answered
execute_order(kis_client, stock_code, order_type, quantity, price, order_condition) ==
    IF kis_client.kind = "none"
    THEN [outcome |-> Return([success |-> FALSE, error |-> "KIS client not configured."]),
          received |-> <<>>, client_outcome |-> NoOutcome]
    ELSE LET sent == [stock_code |-> stock_code, order_type |-> order_type,
                      quantity |-> quantity, price |-> price,
                      order_condition |-> order_condition]
             got == ClientPlaceOrder(kis_client, sent)
         IN [outcome |-> got, received |-> <<sent>>, client_outcome |-> got]

\* trading_service.py:191-201  get_portfolio_details
get_portfolio_details(kis_client) ==
    IF kis_client.kind = "none"
    THEN [outcome |-> Return([error |-> "KIS client not configured.", holdings |-> <<>>,
                              summary |-> <<>>]),
          received |-> <<>>, client_outcome |-> NoOutcome]
    ELSE LET got == ClientAccountBalance(kis_client)
         IN [outcome |-> got, received |-> <<>>, client_outcome |-> got]

\* TradingService(kis_api_client=..., strategy=strategy_arg).  __init__ has the
\* one parameter kis_api_client (trading_service.py:27): a strategy keyword is
\* a TypeError, and without it the object gets kis_client and nothing else.
TradingService_init(strategy_arg) ==
    IF strategy_arg # NoStrategy
    THEN Raise("TradingService.__init__() got an unexpected keyword argument 'strategy'")
    ELSE Return(NoStrategy)

\* service.set_strategy(strategy_arg): the class defines analyze_stock,
\* scan_stocks, execute_order and get_portfolio_details; set_strategy exists
\* only inside the commented block at the end of the file
set_strategy(self, strategy_arg) ==
    [outcome |-> Raise("'TradingService' object has no attribute 'set_strategy'"),
     self |-> self]

\* trading_service.py:164-170: the except branch of scan_stocks
ScanError(code, msg) ==
    [stock_code |-> code, signal |-> "ERROR",
     reason |-> Reason("An unexpected error occurred during analysis: ", <<msg>>)]

\* trading_service.py:161-170: one iteration's contribution to results
ScanEntry(code, outcome) ==
    IF outcome.kind = "return" THEN outcome.value ELSE ScanError(code, outcome.msg)

----------------------------------------------------------------------------
(* API layer: api/trading.py *)

\* dict.get(key, default)
Get(d, key, default) == IF key \in DOMAIN d THEN d[key] ELSE default

\* the endpoint with the alternative left in the comment at trading.py:111-112:
\* a failure reported by the service becomes an HTTP 400
execute_trade_endpoint_RaiseOnFailure(kis_client, order_input) ==
    LET run == execute_order(kis_client, order_input.stock_code, order_input.order_type,
                             order_input.quantity, order_input.price,
                             order_input.order_condition)
        sent == [stock_code |-> order_input.stock_code, order_type |-> order_input.order_type,
                 quantity |-> order_input.quantity, price |-> order_input.price,
                 order_condition |-> order_input.order_condition]
        api_response == run.outcome.value
        response ==
            IF run.outcome.kind = "raise"
            THEN [status_code |-> 500,
                  detail |-> <<"Failed to execute trade: ", run.outcome.msg>>]
            ELSE IF Get(api_response, "success", FALSE)
            THEN [status_code |-> 200,
                  order_id |-> Get(api_response, "order_id", ""),
                  stock_symbol |-> order_input.stock_code,
                  order_type |-> order_input.order_type,
                  quantity |-> order_input.quantity,
                  status |-> IF Get(api_response, "order_id", "") # ""
                             THEN "PENDING" ELSE "SUBMITTED_NO_ID",
                  message |-> "Order submitted successfully.",
                  details |-> Get(api_response, "details", <<>>)]
            ELSE [status_code |-> 400,
                  detail |-> <<"Trade execution failed: ",
                               Get(api_response, "error",
                                   "Unknown error during trade execution.")>>]
    IN [service_calls |-> <<sent>>, service_outcome |-> run.outcome, response |-> response]

\* trading.py:56-116  execute_trade_endpoint: the execute_order calls it made
\* (keyword arguments), what the service answered, and the HTTP response: an
\* OrderOutput under status code 200, or the HTTPException of the except branch
execute_trade_endpoint(kis_client, order_input) ==
    LET run == execute_order(kis_client, order_input.stock_code, order_input.order_type,
                             order_input.quantity, order_input.price,
                             order_input.order_condition)
        sent == [stock_code |-> order_input.stock_code, order_type |-> order_input.order_type,
                 quantity |-> order_input.quantity, price |-> order_input.price,
                 order_condition |-> order_input.order_condition]
        api_response == run.outcome.value
        response ==
            IF run.outcome.kind = "raise"
            THEN [status_code |-> 500,
                  detail |-> <<"Failed to execute trade: ", run.outcome.msg>>]
            ELSE IF Get(api_response, "success", FALSE)
            THEN [status_code |-> 200,
                  order_id |-> Get(api_response, "order_id", ""),
                  stock_symbol |-> order_input.stock_code,
                  order_type |-> order_input.order_type,
                  quantity |-> order_input.quantity,
                  status |-> IF Get(api_response, "order_id", "") # ""
                             THEN "PENDING" ELSE "SUBMITTED_NO_ID",
                  message |-> "Order submitted successfully.",
                  details |-> Get(api_response, "details", <<>>)]
            ELSE [status_code |-> 200,
                  order_id |-> "",
                  stock_symbol |-> order_input.stock_code,
                  order_type |-> order_input.order_type,
                  quantity |-> order_input.quantity,
                  status |-> "FAILED",
                  message |-> Get(api_response, "error",
                                  "Unknown error during trade execution."),
                  details |-> Get(api_response, "details", <<>>)]
    IN [service_calls |-> <<sent>>, service_outcome |-> run.outcome, response |-> response]

----------------------------------------------------------------------------
(* Inputs *)

Symbols == {"005930", "000660"}

\* stock_codes lists, duplicates included
CodeLists == UNION {[1..n -> Symbols] : n \in 0..MaxScan}

\* (wr_oversold, wr_overbought) pairs a strategy is constructed with: the
\* defaults, a pair that meets in one value, and a crossed pair
Thresholds == {<<WILLIAMS_R_OVERSOLD, WILLIAMS_R_OVERBOUGHT>>, <<-50, -50>>, <<-20, -80>>}

\* __init__ takes what it is given: a negative bb_std_dev is a configuration too
StrategyConfigs ==
    {BollingerWilliamsStrategy(w, dev, per, t[1], t[2]) :
        w \in {2, 3}, dev \in {-1, 1, 2}, per \in {2, 3}, t \in Thresholds}

\* rows of the frames handed to the strategy directly
RowChoices == [close : {NaN, Num(0), Num(1), Num(2)},
               hl : {<<Num(2), Num(0)>>, <<Num(1), Num(1)>>, <<NaN, Num(0)>>}]

FrameChoices == UNION {[1..n -> RowChoices] : n \in 0..MaxLen}

Frame(choice) ==
    [i \in 1..Len(choice) |->
        [date |-> [k |-> "ts", day |-> i], close |-> choice[i].close,
         high |-> choice[i].hl[1], low |-> choice[i].hl[2]]]

\* rows of the frames handed to calculate_williams_r directly: high >= low in
\* every row, the close anywhere
WrRowChoices == [close : {NaN, Num(0), Num(1), Num(2)},
                 hl : {<<Num(2), Num(0)>>, <<Num(1), Num(1)>>, <<Num(1), Num(0)>>}]

WrFrameChoices == UNION {[1..n -> WrRowChoices] : n \in 0..MaxLen}

\* frames that differ in their closes only
CloseChoices == {c \in FrameChoices : \A i \in 1..Len(c) : c[i].hl = <<Num(2), Num(0)>>}

\* a frame without the column col
Drop(data, col) ==
    [i \in 1..Len(data) |->
        [date |-> data[i].date,
         close |-> IF col = "close" THEN Missing ELSE data[i].close,
         high |-> IF col = "high" THEN Missing ELSE data[i].high,
         low |-> IF col = "low" THEN Missing ELSE data[i].low]]

\* frames of 1..MaxLen equal rows with one of the three columns left out
MissingColumnFrames ==
    {Drop(Frame([i \in 1..n |-> [close |-> Num(1), hl |-> <<Num(2), Num(0)>>]]), col) :
        n \in 1..MaxLen, col \in {"close", "high", "low"}}

\* the first required column the frame lacks, "" when it has them all
MissingOf(data) ==
    IF ~HasColumn(data, "close") THEN "close"
    ELSE IF ~HasColumn(data, "high") THEN "high"
    ELSE IF ~HasColumn(data, "low") THEN "low"
    ELSE ""

\* the series a direct strategy call is given as its argument
GivenSeries(data) ==
    [kind |-> "arg", n |-> Len(data), p |-> 0, c |-> 0, newest_first |-> FALSE,
     bad_date |-> FALSE, missing |-> MissingOf(data), net |-> "n/a"]

\* the records get_historical_stock_data can hand over: a date of the format or
\* one that is not, a close that is a number (0 or 1 by the day) or a text that
\* is not a number
RawRecords ==
    UNION {{[date |-> Ymd(day), close |-> c, high |-> Num(BasePrice), low |-> Num(0)] :
               c \in {Num(day % 2), Text}} : day \in 1..MaxLen}
    \cup {[date |-> BadDate, close |-> c, high |-> Num(BasePrice), low |-> Num(0)] :
            c \in {Num(0), Text}}

RECURSIVE ListsOf(_, _)
ListsOf(S, n) ==
    IF n = 0 THEN {<<>>}
    ELSE LET shorter == ListsOf(S, n - 1)
         IN shorter \cup {Append(l, x) : l \in {t \in shorter : Len(t) = n - 1}, x \in S}

\* the lists get_historical_stock_data hands to a direct _fetch_and_prepare_data
\* call: up to MaxLen records in any order, dates possibly repeated
RawLists == ListsOf(RawRecords, MaxLen)

\* the strategy a caller hands to the service: narrower window, period and
\* bands than the module constants
SwapStrategies == {BollingerWilliamsStrategy(3, 1, 2, WILLIAMS_R_OVERSOLD, WILLIAMS_R_OVERBOUGHT)}

\* execute_order arguments: sell, buy and an order_type KIS does not know; a
\* limit price or none; limit or market condition
OrderArgs ==
    [stock_code : {"005930"}, order_type : {"01", "02", "99"}, quantity : {10},
     price : {0, 10000}, order_condition : {"00", "03"}]

\* the clients behind the service an execute_trade request meets: those of
\* Clients, one whose place_order reports success without an order number, and
\* one that reports failure without an error text
EndpointClients ==
    Clients
    \cup {[kind |-> "injected", env |-> [token |-> "valid", auth |-> "ok", net |-> "ok"],
           does |-> d] :
            d \in {Return([success |-> TRUE, details |-> <<>>]),
                   Return([success |-> FALSE])}}

\* window / period arguments of direct indicator calls
EngineWindows == 1..MaxLen

\* window_dev arguments of direct indicator calls: the function takes any number
EngineDevs == {-1, 0, 1, 2}

\* (symbol, current price) arguments of direct strategy calls
StrategyArgs == {<<"005930", 1>>, <<"000660", 9>>}

\* analyze_stock over every input of the model, tabulated once (@@ makes the
\* table explicit)
ServiceRuns ==
    LET table == [code \in Symbols, pr \in PriceResponses,
                  h \in HistResponses \cup {NotCalled} |-> analyze_stock(code, pr, h)]
    IN table @@ table

\* the history behaviours that matter to a call: get_historical_stock_data is
\* only reached with a price that converts to a number
HistFor(pr) == IF pr.kind \in {"float", "str"} THEN HistResponses ELSE {NotCalled}

----------------------------------------------------------------------------
(* State machine *)

NoCall ==
    [by |-> "none", stock_code |-> "", price |-> [kind |-> "none", v |-> 0],
     hist |-> NotCalled, current_price |-> None, outcome |-> NoOutcome]

NoCalls == [price |-> 0, hist |-> 0, indicators |-> 0]

NoEngine ==
    [fn |-> "none", data |-> <<>>, window |-> 0, window_dev |-> 0, outcome |-> NoOutcome,
     passed |-> <<>>]

\* TradingService() as __init__ leaves it: no strategy attribute, none asked for
NoService == [strategy |-> NoStrategy, requested |-> NoStrategy]

\* the module as imported: ACCESS_TOKEN = None, TOKEN_EXPIRY_TIME = None
NoKis ==
    [ACCESS_TOKEN |-> "none", TOKEN_EXPIRY_TIME |-> NoExpiry, now |-> 0, n |-> 0,
     last |-> [fn |-> "none", token_requested |-> FALSE, token_granted |-> FALSE,
               sent |-> FALSE, outcome |-> "none"]]

NoEndpoint ==
    [fn |-> "none", client |-> NoClient, order_input |-> <<>>, service_calls |-> <<>>,
     service_outcome |-> NoOutcome, response |-> <<>>]

\* the two callers of scan_stocks that can overlap: the scheduled job and a
\* request to the scan endpoint
Invocations == {"scheduler", "manual"}

\* scheduler/jobs.py:32
stocks_to_monitor == <<"005930", "035720", "000660">>

\* what the client answers to one analysis of an overlapping scan: the price
\* request fails, or it gives a price and the history of a rising market
ConcurrentAnswers ==
    {<<[kind |-> "raise", v |-> 0], NotCalled>>,
     <<[kind |-> "float", v |-> 7],
       [kind |-> "data", n |-> BB_WINDOW, p |-> BasePrice, c |-> 3, newest_first |-> FALSE,
        bad_date |-> FALSE, missing |-> "", net |-> "n/a"]>>}

\* analyze_stock on each symbol either caller can pass and each such answer
ConcurrentRuns ==
    LET codes == Symbols \cup {stocks_to_monitor[k] : k \in 1..Len(stocks_to_monitor)}
        table == [code \in codes, ans \in ConcurrentAnswers
                    |-> analyze_stock(code, ans[1], ans[2]).outcome]
    IN table @@ table

\* the frame of a scan_stocks call that has not been made; interleaved
\* records that the call appended an entry while the other call was between
\* an analysis and its append
NoFrame ==
    [at |-> "none", stock_codes |-> <<>>, pos |-> 0, analysis |-> NoOutcome,
     results |-> <<>>, returned |-> NoOutcome, interleaved |-> FALSE]

NoScans == [i \in Invocations |-> NoFrame]

NoPrepared == [raw |-> <<>>, outcome |-> NoOutcome]

NoOrder ==
    [fn |-> "none", client |-> NoClient, args |-> <<>>, received |-> <<>>,
     client_outcome |-> NoOutcome]

Init ==
    /\ pc = "idle"
    /\ strategy = DefaultStrategy
    /\ stock_codes = <<>>
    /\ pos = 0
    /\ results = <<>>
    /\ returned = NoOutcome
    /\ call = NoCall
    /\ latest_data = NoRow
    /\ nrows = 0
    /\ calls = NoCalls
    /\ engine = NoEngine
    /\ service = NoService
    /\ order = NoOrder
    /\ prepared = NoPrepared
    /\ endpoint = NoEndpoint
    /\ kis = NoKis
    /\ scans = NoScans

\* indicators.calculate_bollinger_bands(data, window, window_dev), called directly
BollingerBandsCall ==
    /\ pc = "idle"
    /\ \E data \in {Frame(c) : c \in CloseChoices} \cup MissingColumnFrames,
          window \in EngineWindows, window_dev \in EngineDevs :
          \E out \in {calculate_bollinger_bands(data, window, window_dev)} :
             /\ engine' = [fn |-> "calculate_bollinger_bands", data |-> data,
                           window |-> window, window_dev |-> window_dev, outcome |-> out,
                           passed |-> PassedFrameAfter(data, out)]
             /\ returned' = out
    /\ pc' = "engine_done"
    /\ UNCHANGED <<strategy, stock_codes, pos, results, call, latest_data, nrows, calls,
                   service, order, prepared, endpoint, kis, scans>>

\* indicators.calculate_williams_r(data, period), called directly
WilliamsRCall ==
    /\ pc = "idle"
    /\ \E data \in {Frame(c) : c \in WrFrameChoices} \cup MissingColumnFrames,
          period \in EngineWindows :
          \E out \in {calculate_williams_r(data, period)} :
             /\ engine' = [fn |-> "calculate_williams_r", data |-> data,
                           window |-> period, window_dev |-> 0, outcome |-> out,
                           passed |-> PassedFrameAfter(data, out)]
             /\ returned' = out
    /\ pc' = "engine_done"
    /\ UNCHANGED <<strategy, stock_codes, pos, results, call, latest_data, nrows, calls,
                   service, order, prepared, endpoint, kis, scans>>

\* service._fetch_and_prepare_data(stock_code), called on its own with a client
\* whose get_historical_stock_data returns raw_data
FetchAndPrepareCall ==
    /\ pc = "idle"
    /\ \E raw_data \in RawLists :
       \E out \in {PrepareData(raw_data)} :
          /\ prepared' = [raw |-> raw_data, outcome |-> out]
          /\ returned' = out
    /\ pc' = "prepared"
    /\ UNCHANGED <<strategy, stock_codes, pos, results, call, latest_data, nrows, calls,
                   engine, service, order, endpoint, kis, scans>>

\* TradingService(kis_api_client=client) or
\* TradingService(kis_api_client=client, strategy=S)
ServiceConstruct ==
    /\ pc = "idle"
    /\ \E strategy_arg \in SwapStrategies \cup {NoStrategy} :
          LET out == TradingService_init(strategy_arg)
          IN /\ returned' = out
             /\ service' = [strategy |-> IF out.kind = "return" THEN out.value ELSE NoStrategy,
                            requested |-> strategy_arg]
    /\ pc' = "constructed"
    /\ UNCHANGED <<strategy, stock_codes, pos, results, call, latest_data, nrows, calls,
                   engine, order, prepared, endpoint, kis, scans>>

\* service.set_strategy(S)
SetStrategy ==
    /\ pc = "idle"
    /\ \E strategy_arg \in SwapStrategies :
          LET run == set_strategy(service.strategy, strategy_arg)
          IN /\ returned' = run.outcome
             /\ service' = [strategy |-> run.self, requested |-> strategy_arg]
    /\ pc' = "set_done"
    /\ UNCHANGED <<strategy, stock_codes, pos, results, call, latest_data, nrows, calls,
                   engine, order, prepared, endpoint, kis, scans>>

\* service.execute_order(stock_code, order_type, quantity, price, order_condition)
ExecuteOrder ==
    /\ pc = "idle"
    /\ \E client \in Clients, args \in OrderArgs :
          LET run == execute_order(client, args.stock_code, args.order_type, args.quantity,
                                   args.price, args.order_condition)
          IN /\ returned' = run.outcome
             /\ order' = [fn |-> "execute_order", client |-> client, args |-> args,
                          received |-> run.received, client_outcome |-> run.client_outcome]
    /\ pc' = "order_done"
    /\ UNCHANGED <<strategy, stock_codes, pos, results, call, latest_data, nrows, calls,
                   engine, service, prepared, endpoint, kis, scans>>

\* POST /api/execute_trade with body order_input
ExecuteTradeEndpoint ==
    /\ pc = "idle"
    /\ \E client \in EndpointClients, order_input \in OrderArgs :
       \E run \in {execute_trade_endpoint(client, order_input)} :
          /\ endpoint' = [fn |-> "execute_trade_endpoint", client |-> client,
                          order_input |-> order_input, service_calls |-> run.service_calls,
                          service_outcome |-> run.service_outcome,
                          response |-> run.response]
          /\ returned' = run.service_outcome
    /\ pc' = "responded"
    /\ UNCHANGED <<strategy, stock_codes, pos, results, call, latest_data, nrows, calls,
                   engine, service, order, prepared, kis, scans>>

\* one of the API functions of core.kis_api is called
KisRequest ==
    /\ pc \in {"idle", "kis"}
    /\ kis.n < MaxRequests
    /\ \E fn \in KisFunctions, answer \in TokenAnswers, net \in {"ok", "transport", "http", "rt_cd"} :
          kis' = ApiCall(kis, fn, answer, net)
    /\ pc' = "kis"
    /\ UNCHANGED <<strategy, stock_codes, pos, results, returned, call, latest_data, nrows,
                   calls, engine, service, order, prepared, endpoint, scans>>

\* time passes between two API calls
KisTick ==
    /\ pc = "kis"
    /\ kis.now + TOKEN_MARGIN <= MaxClock
    /\ kis' = [kis EXCEPT !.now = kis.now + TOKEN_MARGIN]
    /\ UNCHANGED <<pc, strategy, stock_codes, pos, results, returned, call, latest_data, nrows,
                   calls, engine, service, order, prepared, endpoint, scans>>

\* service.get_portfolio_details()
GetPortfolioDetails ==
    /\ pc = "idle"
    /\ \E client \in Clients :
          LET run == get_portfolio_details(client)
          IN /\ returned' = run.outcome
             /\ order' = [fn |-> "get_portfolio_details", client |-> client, args |-> <<>>,
                          received |-> run.received, client_outcome |-> run.client_outcome]
    /\ pc' = "order_done"
    /\ UNCHANGED <<strategy, stock_codes, pos, results, call, latest_data, nrows, calls,
                   engine, service, prepared, endpoint, kis, scans>>

\* a caller constructs BollingerWilliamsStrategy(...)
StrategyConstruct ==
    /\ pc = "idle"
    /\ \E cfg \in StrategyConfigs : strategy' = cfg
    /\ pc' = "strategy"
    /\ UNCHANGED <<stock_codes, pos, results, returned, call, latest_data, nrows, calls,
                   engine, service, order, prepared, endpoint, kis, scans>>

\* strategy.analyze(stock_code, data, current_price)
StrategyCall ==
    /\ pc = "strategy"
    /\ \E arg \in StrategyArgs,
          data \in {Frame(c) : c \in FrameChoices} \cup MissingColumnFrames :
          \E run \in {StrategyRun(strategy, arg[1], data, Num(arg[2]))} :
             /\ returned' = run.outcome
             /\ call' = [by |-> "strategy", stock_code |-> arg[1],
                         price |-> [kind |-> "arg", v |-> arg[2]],
                         hist |-> GivenSeries(data),
                         current_price |-> Num(arg[2]), outcome |-> run.outcome]
             /\ latest_data' = run.latest
             /\ nrows' = Len(data)
             /\ calls' = [calls EXCEPT !.indicators = run.computed]
    /\ pc' = "strategy_done"
    /\ UNCHANGED <<strategy, stock_codes, pos, results, engine, service, order, prepared, endpoint, kis, scans>>

\* service.analyze_stock(stock_code), called on its own or after a
\* set_strategy call
AnalyzeStock ==
    /\ pc \in {"idle", "set_done"}
    /\ \E code \in Symbols, pr \in PriceResponses :
       \E h \in HistFor(pr) :
          \E run \in {ServiceRuns[code, pr, h]} :
             /\ returned' = run.outcome
             /\ call' = [by |-> "service", stock_code |-> code, price |-> pr,
                         hist |-> run.hist,
                         current_price |-> IF pr.kind \in {"float", "str"}
                                           THEN Num(pr.v) ELSE None,
                         outcome |-> run.outcome]
             /\ latest_data' = run.latest
             /\ nrows' = run.nrows
             /\ calls' = [price |-> 1, hist |-> run.fetched, indicators |-> run.computed]
    /\ pc' = "analyzed"
    /\ UNCHANGED <<strategy, stock_codes, pos, results, engine, service, order, prepared, endpoint, kis, scans>>

\* service.scan_stocks(stock_codes): entry
ScanStocks ==
    /\ pc = "idle"
    /\ \E codes \in CodeLists : stock_codes' = codes
    /\ pos' = 0
    /\ results' = <<>>
    /\ calls' = NoCalls
    /\ pc' = "scan"
    /\ UNCHANGED <<strategy, returned, call, latest_data, nrows, engine, service, order, prepared, endpoint, kis, scans>>

\* a scan whose loop body has no try/except: the exception leaves scan_stocks
ScanCollect_Abort(code, outcome) ==
    IF outcome.kind = "raise"
    THEN results' = results /\ pc' = "scan_done" /\ returned' = outcome
    ELSE results' = Append(results, outcome.value) /\ UNCHANGED <<pc, returned>>

\* a scan whose except branch appends nothing
ScanCollect_Skip(code, outcome) ==
    /\ results' = IF outcome.kind = "raise" THEN results ELSE Append(results, outcome.value)
    /\ UNCHANGED <<pc, returned>>

\* trading_service.py:161-170: try / except around analyze_stock, one append
\* on either path
ScanCollect(code, outcome) ==
    /\ results' = Append(results, ScanEntry(code, outcome))
    /\ UNCHANGED <<pc, returned>>

\* a pass of the loop that answers from the previous analysis when it was for
\* the same symbol, without asking the client again
ScanIteration_Cached ==
    IF pos > 0 /\ pos < Len(stock_codes) /\ call.by = "service"
       /\ call.stock_code = stock_codes[pos + 1]
    THEN /\ pc = "scan"
         /\ pos' = pos + 1
         /\ ScanCollect(stock_codes[pos + 1], call.outcome)
         /\ UNCHANGED <<strategy, stock_codes, call, latest_data, nrows, calls, engine,
                        service, order, prepared, endpoint, kis, scans>>
    ELSE /\ pc = "scan"
         /\ pos < Len(stock_codes)
         /\ pos' = pos + 1
         /\ \E pr \in PriceResponses :
            \E h \in HistFor(pr) :
               \E run \in {ServiceRuns[stock_codes[pos + 1], pr, h]} :
                  /\ ScanCollect(stock_codes[pos + 1], run.outcome)
                  /\ call' = [by |-> "service", stock_code |-> stock_codes[pos + 1],
                              price |-> pr, hist |-> run.hist,
                              current_price |-> IF pr.kind \in {"float", "str"}
                                                THEN Num(pr.v) ELSE None,
                              outcome |-> run.outcome]
                  /\ latest_data' = run.latest
                  /\ nrows' = run.nrows
                  /\ calls' = [price |-> calls.price + 1, hist |-> calls.hist + run.fetched,
                               indicators |-> calls.indicators + run.computed]
         /\ UNCHANGED <<strategy, stock_codes, engine, service, order, prepared, endpoint, kis, scans>>

\* scan_stocks: one pass of the for loop (trading_service.py:160-170)
ScanIteration ==
    /\ pc = "scan"
    /\ pos < Len(stock_codes)
    /\ pos' = pos + 1
    /\ \E pr \in PriceResponses :
       \E h \in HistFor(pr) :
          \E code \in {stock_codes[pos + 1]} :
          \E run \in {ServiceRuns[code, pr, h]} :
             /\ ScanCollect(code, run.outcome)
             /\ call' = [by |-> "service", stock_code |-> code, price |-> pr,
                         hist |-> run.hist,
                         current_price |-> IF pr.kind \in {"float", "str"}
                                           THEN Num(pr.v) ELSE None,
                         outcome |-> run.outcome]
             /\ latest_data' = run.latest
             /\ nrows' = run.nrows
             /\ calls' = [price |-> calls.price + 1, hist |-> calls.hist + run.fetched,
                          indicators |-> calls.indicators + run.computed]
    /\ UNCHANGED <<strategy, stock_codes, engine, service, order, prepared, endpoint, kis, scans>>

\* scan_stocks: return results (trading_service.py:171)
ScanReturn ==
    /\ pc = "scan"
    /\ pos = Len(stock_codes)
    /\ returned' = Return(results)
    /\ pc' = "scan_done"
    /\ UNCHANGED <<strategy, stock_codes, pos, results, call, latest_data, nrows, calls,
                   engine, service, order, prepared, endpoint, kis, scans>>

\* the scheduled job and a scan request call scan_stocks on the same service
\* (jobs.py:37; trading_service.py:159: results = [] in each frame)
ConcurrentScans ==
    /\ pc = "idle"
    /\ \E codes \in CodeLists :
          scans' = [i \in Invocations |->
                      [NoFrame EXCEPT !.at = "loop",
                                      !.stock_codes = IF i = "scheduler"
                                                      THEN stocks_to_monitor ELSE codes]]
    /\ pc' = "concurrent"
    /\ UNCHANGED <<strategy, stock_codes, pos, results, returned, call, latest_data, nrows,
                   calls, engine, service, order, prepared, endpoint, kis>>

\* one call's loop takes its next code and analyses it
\* (trading_service.py:160-162, the except clause of l.164 included)
ConcurrentAnalyze(i) ==
    /\ pc = "concurrent"
    /\ scans[i].at = "loop"
    /\ scans[i].pos < Len(scans[i].stock_codes)
    /\ \E ans \in ConcurrentAnswers :
       \E code \in {scans[i].stock_codes[scans[i].pos + 1]} :
          scans' = [scans EXCEPT ![i].at = "analysed",
                                 ![i].analysis = ConcurrentRuns[code, ans]]
    /\ UNCHANGED <<pc, strategy, stock_codes, pos, results, returned, call, latest_data, nrows,
                   calls, engine, service, order, prepared, endpoint, kis>>

\* the other call is between an analysis and its append
MidIteration(i) == \E j \in Invocations \ {i} : scans[j].at = "analysed"

\* a scan whose list belongs to the service: every call in progress sees the
\* entry
ConcurrentAppend_SharedList(i) ==
    /\ pc = "concurrent"
    /\ scans[i].at = "analysed"
    /\ \E code \in {scans[i].stock_codes[scans[i].pos + 1]} :
       \E entry \in {[by |-> i, code |-> code, result |-> ScanEntry(code, scans[i].analysis)]} :
          scans' = [j \in Invocations |->
                      IF j = i
                      THEN [scans[j] EXCEPT !.at = "loop", !.pos = @ + 1,
                                            !.analysis = NoOutcome,
                                            !.results = Append(@, entry),
                                            !.interleaved = @ \/ MidIteration(i)]
                      ELSE IF scans[j].at = "returned" THEN scans[j]
                      ELSE [scans[j] EXCEPT !.results = Append(@, entry)]]
    /\ UNCHANGED <<pc, strategy, stock_codes, pos, results, returned, call, latest_data, nrows,
                   calls, engine, service, order, prepared, endpoint, kis>>

\* one call appends what its analysis gave to its own list
\* (trading_service.py:163 and 166-170); by and code record which call made
\* the entry and for which code
ConcurrentAppend(i) ==
    /\ pc = "concurrent"
    /\ scans[i].at = "analysed"
    /\ \E code \in {scans[i].stock_codes[scans[i].pos + 1]} :
       \E entry \in {[by |-> i, code |-> code, result |-> ScanEntry(code, scans[i].analysis)]} :
          scans' = [scans EXCEPT ![i].at = "loop", ![i].pos = @ + 1,
                                 ![i].analysis = NoOutcome,
                                 ![i].results = Append(@, entry),
                                 ![i].interleaved = @ \/ MidIteration(i)]
    /\ UNCHANGED <<pc, strategy, stock_codes, pos, results, returned, call, latest_data, nrows,
                   calls, engine, service, order, prepared, endpoint, kis>>

\* one call returns its list (trading_service.py:171); the scheduled job logs
\* it (jobs.py:38-45)
ConcurrentReturn(i) ==
    /\ pc = "concurrent"
    /\ scans[i].at = "loop"
    /\ scans[i].pos = Len(scans[i].stock_codes)
    /\ scans' = [scans EXCEPT ![i].at = "returned", ![i].returned = Return(scans[i].results)]
    /\ pc' = IF \A j \in Invocations \ {i} : scans[j].at = "returned"
             THEN "concurrent_done" ELSE pc
    /\ UNCHANGED <<strategy, stock_codes, pos, results, returned, call, latest_data, nrows,
                   calls, engine, service, order, prepared, endpoint, kis>>

\* the caller has its answer; the next call starts from a fresh frame
Finish ==
    /\ pc \in {"strategy_done", "analyzed", "scan_done", "engine_done", "constructed",
              "set_done", "order_done", "prepared", "responded", "kis", "concurrent_done"}
    /\ pc' = "idle"
    /\ strategy' = DefaultStrategy
    /\ stock_codes' = <<>>
    /\ pos' = 0
    /\ results' = <<>>
    /\ returned' = NoOutcome
    /\ call' = NoCall
    /\ latest_data' = NoRow
    /\ nrows' = 0
    /\ calls' = NoCalls
    /\ engine' = NoEngine
    /\ service' = NoService
    /\ order' = NoOrder
    /\ prepared' = NoPrepared
    /\ endpoint' = NoEndpoint
    /\ kis' = NoKis
    /\ scans' = NoScans

Next ==
    \/ BollingerBandsCall
    \/ WilliamsRCall
    \/ FetchAndPrepareCall
    \/ ServiceConstruct
    \/ SetStrategy
    \/ ExecuteOrder
    \/ GetPortfolioDetails
    \/ ExecuteTradeEndpoint
    \/ KisRequest
    \/ KisTick
    \/ StrategyConstruct
    \/ StrategyCall
    \/ AnalyzeStock
    \/ ScanStocks
    \/ ScanIteration
    \/ ScanReturn
    \/ ConcurrentScans
    \/ \E i \in Invocations : ConcurrentAnalyze(i)
    \/ \E i \in Invocations : ConcurrentAppend(i)
    \/ \E i \in Invocations : ConcurrentReturn(i)
    \/ Finish

Spec == Init /\ [][Next]_vars

----------------------------------------------------------------------------
(* Properties *)

\* an analyze_stock run has just taken place in this step
ServiceStep == call'.by = "service" /\ calls'.price = calls.price + 1

Signals == {"BUY", "SELL", "HOLD"}

\* C1: scan_stocks isolates a failing symbol.  When analyze_stock raises for
\* one symbol the loop goes on, the entry appended for that symbol has signal
\* ERROR and carries the exception's message in its reason, the entries
\* collected before it stay as they were, and a symbol whose analysis returns
\* contributes exactly what its own analysis returned.
C1_FailureIsolated ==
    [][(pc = "scan" /\ ServiceStep) =>
          /\ pc' = "scan"
          /\ Len(results') = Len(results) + 1
          /\ \A i \in 1..Len(results) : results'[i] = results[i]
          /\ LET r == results'[Len(results')]
             IN IF call'.outcome.kind = "raise"
                THEN /\ r.stock_code = stock_codes[pos']
                     /\ r.signal = "ERROR"
                     /\ r.reason.args = <<call'.outcome.msg>>
                ELSE r = call'.outcome.value]_vars

\* a finished scan of two symbols whose first analysis raised and whose second
\* produced a BUY
C1_Witness ==
    /\ pc = "scan_done"
    /\ returned.kind = "return"
    /\ Len(returned.value) = 2
    /\ returned.value[1].signal = "ERROR"
    /\ Len(returned.value[1].reason.args) = 1
    /\ returned.value[2].signal = "BUY"

\* C2: scan_stocks returns one result per input symbol, in input order: the
\* returned list is as long as stock_codes and its i-th entry carries the i-th
\* code, duplicates included.
C2_OnePerSymbolInOrder ==
    /\ pc = "scan" => Len(results) = pos
    /\ pc = "scan_done" =>
          /\ returned.kind = "return"
          /\ Len(returned.value) = Len(stock_codes)
          /\ \A i \in 1..Len(stock_codes) : returned.value[i].stock_code = stock_codes[i]

\* a finished scan of the same symbol twice, with different results
C2_Witness ==
    /\ pc = "scan_done"
    /\ Len(stock_codes) = 2
    /\ stock_codes[1] = stock_codes[2]
    /\ returned.value[1].signal # returned.value[2].signal

\* C3: when get_stock_price returns None, analyze_stock returns signal ERROR
\* and neither the history fetch nor the indicator computation and decision
\* rule run during that call.
C3_NoPriceNoStrategy ==
    [][(ServiceStep /\ call'.price.kind = "None") =>
          /\ call'.outcome.kind = "return"
          /\ call'.outcome.value.signal = "ERROR"
          /\ calls'.indicators = calls.indicators
          /\ calls'.hist = calls.hist
          /\ latest_data' = NoRow]_vars

\* a scan in which one symbol was fully analysed and the next one had no price
C3_Witness ==
    /\ pc = "scan"
    /\ call.by = "service"
    /\ call.price.kind = "None"
    /\ calls.price = 2
    /\ calls.indicators = 1

\* C4: when the current price is present and the prepared series is empty,
\* analyze_stock returns signal NO_DATA without computing indicators or
\* applying the decision rule.
C4_EmptySeriesNoData ==
    [][(/\ ServiceStep
        /\ call'.current_price.k = "num"
        /\ calls'.hist = calls.hist + 1
        /\ call'.outcome.kind = "return"
        /\ nrows' = 0) =>
          /\ call'.outcome.value.signal = "NO_DATA"
          /\ calls'.indicators = calls.indicators
          /\ latest_data' = NoRow]_vars

\* an analysis with a price, a history request that was made, and an empty series
C4_Witness ==
    /\ call.by = "service"
    /\ call.current_price.k = "num"
    /\ call.hist.kind = "data"
    /\ call.hist.n = 0
    /\ calls.hist >= 1
    /\ call.outcome.kind = "return"

AllSignals == Signals \cup {"ERROR", "NO_DATA", "NO_INDICATOR"}

\* what makes analyze_stock raise: the price request raises, the price is no
\* number, the history request raises, a record's date does not parse, or the
\* records lack a required key
EscapeCase ==
    \/ call.price.kind \in {"raise", "badstr"}
    \/ /\ call.price.kind \in {"float", "str"}
       /\ call.hist.kind = "raise" \/ call.hist.bad_date \/ call.hist.missing # ""

RowInspected ==
    /\ call.by \in {"service", "strategy"}
    /\ call.outcome.kind = "return"
    /\ latest_data.date.k = "ts"

AllPresent ==
    /\ latest_data.close.k = "num"
    /\ latest_data.bb_lband.k = "num"
    /\ latest_data.bb_hband.k = "num"
    /\ latest_data.wr.k = "num"

\* the thresholds in force: the strategy's own, or the service's constants
Oversold == IF call.by = "strategy" THEN strategy.wr_oversold ELSE WILLIAMS_R_OVERSOLD
Overbought == IF call.by = "strategy" THEN strategy.wr_overbought ELSE WILLIAMS_R_OVERBOUGHT

BuyCondition ==
    Less(latest_data.close, latest_data.bb_lband) /\ Less(latest_data.wr, Num(Oversold))
SellCondition ==
    Less(latest_data.bb_hband, latest_data.close) /\ Less(Num(Overbought), latest_data.wr)

\* C6: with close, lower band, upper band and Williams %R present in the last
\* row, the signal is BUY iff close < lower band and wr < oversold; otherwise
\* SELL iff close > upper band and wr > overbought; otherwise HOLD.  The
\* comparisons are strict and BUY is tried first.
C6_DecisionRule ==
    (RowInspected /\ AllPresent) =>
        LET sig == call.outcome.value.signal
        IN /\ sig = "BUY" <=> BuyCondition
           /\ sig = "SELL" <=> (~BuyCondition /\ SellCondition)
           /\ sig = "HOLD" <=> (~BuyCondition /\ ~SellCondition)

\* the strategy holds although Williams %R is below the oversold threshold,
\* because the close sits exactly on the lower band
C6_Witness ==
    /\ RowInspected /\ AllPresent
    /\ call.by = "strategy"
    /\ ~Less(latest_data.close, latest_data.bb_lband)
    /\ ~Less(latest_data.bb_lband, latest_data.close)
    /\ Less(latest_data.bb_lband, latest_data.bb_hband)
    /\ Less(latest_data.wr, Num(Oversold))
    /\ call.outcome.value.signal = "HOLD"

\* the multiplier the bands of the last row were computed with
StdDev == IF call.by = "strategy" THEN strategy.bb_std_dev ELSE BB_STD_DEV

\* C7 as stated: the BUY condition and the SELL condition never hold of the
\* same last row, whatever the row and whatever thresholds the strategy was
\* constructed with.
C7_Exclusive ==
    (RowInspected /\ AllPresent) => ~(BuyCondition /\ SellCondition)

\* C7 as the code has it: the BUY condition and the SELL condition never both
\* hold when wr_oversold <= wr_overbought, nor when the bands were computed
\* with a multiplier >= 0 (lower band <= upper band); where both hold, which
\* takes crossed thresholds and a negative multiplier, the signal is BUY.
C7_ExclusiveWhenOrdered ==
    (RowInspected /\ AllPresent) =>
        /\ (Oversold <= Overbought \/ StdDev >= 0) => ~(BuyCondition /\ SellCondition)
        /\ (BuyCondition /\ SellCondition) => call.outcome.value.signal = "BUY"

\* crossed thresholds and a Williams %R that is below the one and above the
\* other, with the close strictly between the bands: only the order of the
\* bands keeps the two conditions apart
C7_Witness ==
    /\ RowInspected /\ AllPresent
    /\ call.by = "strategy"
    /\ strategy.bb_std_dev > 0
    /\ Less(latest_data.wr, Num(Oversold))
    /\ Less(Num(Overbought), latest_data.wr)
    /\ Less(latest_data.bb_lband, latest_data.close)
    /\ Less(latest_data.close, latest_data.bb_hband)

\* C8: BollingerWilliamsStrategy.analyze returns NO_DATA, with price_at_signal
\* None and an empty indicators mapping, exactly when the series is empty or
\* shorter than max(bb_window, wr_period).
C8_NoDataIffShort ==
    call.by = "strategy" =>
        LET r == call.outcome.value
            short == nrows = 0 \/ nrows < Max(strategy.bb_window, strategy.wr_period)
        IN /\ (call.outcome.kind = "return" /\ r.signal = "NO_DATA") <=> short
           /\ short => /\ r.price_at_signal.k = "none"
                       /\ DOMAIN r.indicators = {}

\* a series long enough for the Bollinger window but not for the Williams period
C8_Witness ==
    /\ call.by = "strategy"
    /\ strategy.bb_window <= nrows
    /\ nrows < strategy.wr_period
    /\ call.outcome.value.signal = "NO_DATA"

\* C9: when close, lower band, upper band or Williams %R is absent in the last
\* row, the signal is NO_INDICATOR (never BUY, SELL or HOLD), and the strategy
\* reports the last close, present or not, as price_at_signal.
C9_NoIndicatorWhenAbsent ==
    RowInspected =>
        LET r == call.outcome.value
        IN /\ ~AllPresent <=> r.signal = "NO_INDICATOR"
           /\ r.signal \in Signals => AllPresent
           /\ (~AllPresent /\ call.by = "strategy") =>
                 /\ r.price_at_signal = latest_data.close
                 /\ r.indicators.bollinger_lower = latest_data.bb_lband
                 /\ r.indicators.bollinger_upper = latest_data.bb_hband
                 /\ r.indicators.williams_r = latest_data.wr

\* the bands and the close are there but Williams %R is not
C9_Witness ==
    /\ RowInspected
    /\ call.by = "strategy"
    /\ latest_data.close.k = "num"
    /\ latest_data.bb_lband.k = "num"
    /\ latest_data.wr.k = "nan"
    /\ call.outcome.value.signal = "NO_INDICATOR"
    /\ call.outcome.value.price_at_signal.k = "num"

\* C10: a BUY, SELL or HOLD result carries the last (newest) row's date as
\* timestamp, that row's close as price_at_signal, the current price that was
\* passed in as current_market_price, and that row's lower, middle and upper
\* band and Williams %R as indicators.
C10_ResultFields ==
    (RowInspected /\ call.outcome.value.signal \in Signals) =>
        LET r == call.outcome.value
        IN /\ latest_data.date.day = nrows
           /\ r.timestamp = [k |-> "iso", day |-> nrows]
           /\ r.price_at_signal = latest_data.close
           /\ r.current_market_price = call.current_price
           /\ r.indicators = [bollinger_lower |-> latest_data.bb_lband,
                              bollinger_middle |-> latest_data.bb_mavg,
                              bollinger_upper |-> latest_data.bb_hband,
                              williams_r |-> latest_data.wr]

\* a signal whose current market price differs from the close it was decided on
C10_Witness ==
    /\ RowInspected
    /\ call.by = "strategy"
    /\ call.outcome.value.signal = "SELL"
    /\ Less(call.outcome.value.price_at_signal, call.outcome.value.current_market_price)

----------------------------------------------------------------------------
(* Indicator engine called directly: core/indicators.py *)

\* the direct indicator call returned a frame
EngineReturned == engine.fn # "none" /\ engine.outcome.kind = "return"

\* the columns the called function requires are all in the frame it was given
EngineColumnsPresent ==
    IF engine.fn = "calculate_bollinger_bands" THEN HasColumn(engine.data, "close")
    ELSE \A col \in {"high", "low", "close"} : HasColumn(engine.data, col)

\* C18: on a series shorter than the window, calculate_bollinger_bands returns
\* normally one row per input row with all five bb_ columns null, and on a
\* series shorter than the period calculate_williams_r returns normally one row
\* per input row with wr null; the input columns are carried over unchanged.
C18_ShortSeriesAbsent ==
    (engine.fn # "none" /\ EngineColumnsPresent /\ Len(engine.data) < engine.window) =>
        /\ engine.outcome.kind = "return"
        /\ Len(engine.outcome.value) = Len(engine.data)
        /\ \A i \in 1..Len(engine.data) :
              LET row == engine.outcome.value[i]
              IN /\ row.close = engine.data[i].close
                 /\ row.date = engine.data[i].date
                 /\ IF engine.fn = "calculate_bollinger_bands"
                    THEN /\ IsNull(row.bb_mavg) /\ IsNull(row.bb_hband)
                         /\ IsNull(row.bb_lband) /\ IsNull(row.bb_pband)
                         /\ IsNull(row.bb_wband)
                    ELSE IsNull(row.wr)

\* a two-row series with numeric closes given to the band computation with
\* window 3
C18_Witness ==
    /\ EngineReturned
    /\ engine.fn = "calculate_bollinger_bands"
    /\ Len(engine.data) = 2
    /\ engine.window = 3
    /\ \A i \in 1..2 : engine.data[i].close.k = "num"
    /\ IsNull(engine.outcome.value[2].bb_mavg)

\* x = y and x <= y for two present numbers
Same(x, y) == ~Less(x, y) /\ ~Less(y, x)
AtMost(x, y) == ~Less(y, x)

\* the rows of a returned band frame whose three bands are present
BandRowsPresent ==
    {i \in 1..Len(engine.data) :
        LET row == engine.outcome.value[i]
        IN ~IsNull(row.bb_lband) /\ ~IsNull(row.bb_mavg) /\ ~IsNull(row.bb_hband)}

\* the trailing window's population standard deviation at row i is 0
WindowStdZero(i) ==
    LET S == SumClose(engine.data, i - engine.window + 1, i)
        SS == SumSqClose(engine.data, i - engine.window + 1, i)
    IN engine.window * SS - S * S = 0

\* a direct band computation on a series at least as long as the window
BandsComputed ==
    /\ EngineReturned
    /\ engine.fn = "calculate_bollinger_bands"
    /\ engine.window <= Len(engine.data)

\* C19 as stated: for every window and multiplier the function accepts, each
\* row with present bands has bb_lband <= bb_mavg <= bb_hband, with equality
\* only where the window's standard deviation is 0.
C19_BandOrder ==
    BandsComputed =>
        \A i \in BandRowsPresent :
            LET row == engine.outcome.value[i]
            IN /\ AtMost(row.bb_lband, row.bb_mavg)
               /\ AtMost(row.bb_mavg, row.bb_hband)
               /\ Same(row.bb_lband, row.bb_mavg) => WindowStdZero(i)
               /\ Same(row.bb_mavg, row.bb_hband) => WindowStdZero(i)

\* C19 as the code has it: with a positive multiplier each row with present
\* bands has bb_lband <= bb_mavg <= bb_hband, with equality exactly where the
\* window's standard deviation is 0; with multiplier 0 the three bands coincide
\* in every such row; with a negative multiplier the order is reversed,
\* bb_hband <= bb_mavg <= bb_lband.
C19_BandOrderBySign ==
    BandsComputed =>
        \A i \in BandRowsPresent :
            LET row == engine.outcome.value[i]
            IN /\ engine.window_dev > 0 =>
                    /\ AtMost(row.bb_lband, row.bb_mavg)
                    /\ AtMost(row.bb_mavg, row.bb_hband)
                    /\ Same(row.bb_lband, row.bb_mavg) <=> WindowStdZero(i)
                    /\ Same(row.bb_mavg, row.bb_hband) <=> WindowStdZero(i)
               /\ engine.window_dev = 0 =>
                    /\ Same(row.bb_lband, row.bb_mavg)
                    /\ Same(row.bb_mavg, row.bb_hband)
               /\ engine.window_dev < 0 =>
                    /\ AtMost(row.bb_hband, row.bb_mavg)
                    /\ AtMost(row.bb_mavg, row.bb_lband)
                    /\ Same(row.bb_lband, row.bb_mavg) <=> WindowStdZero(i)

\* a window of two different closes under multiplier 2: the bands are strictly
\* ordered
C19_Witness ==
    /\ BandsComputed
    /\ engine.window = 2
    /\ engine.window_dev = 2
    /\ Len(engine.data) = 3
    /\ 3 \in BandRowsPresent
    /\ ~WindowStdZero(3)
    /\ Less(engine.outcome.value[3].bb_lband, engine.outcome.value[3].bb_mavg)
    /\ Less(engine.outcome.value[3].bb_mavg, engine.outcome.value[3].bb_hband)

\* a direct Williams %R computation on a series at least as long as the period
WrComputed ==
    /\ EngineReturned
    /\ engine.fn = "calculate_williams_r"
    /\ engine.window <= Len(engine.data)

\* every point of the series has high >= low
HighAboveLow ==
    \A i \in 1..Len(engine.data) :
        (~IsNull(engine.data[i].high) /\ ~IsNull(engine.data[i].low)) =>
            AtMost(engine.data[i].low, engine.data[i].high)

\* every point of the series has its close between its low and its high
CloseInside ==
    \A i \in 1..Len(engine.data) :
        (~IsNull(engine.data[i].high) /\ ~IsNull(engine.data[i].low)
            /\ ~IsNull(engine.data[i].close)) =>
            /\ AtMost(engine.data[i].low, engine.data[i].close)
            /\ AtMost(engine.data[i].close, engine.data[i].high)

\* every present wr of the returned frame is in [-100, 0]
WrInRange ==
    \A i \in 1..Len(engine.data) :
        LET wr == engine.outcome.value[i].wr
        IN ~IsNull(wr) => AtMost(Num(-100), wr) /\ AtMost(wr, Num(0))

\* C20 as stated: for every series whose points have high >= low and every
\* period, each present wr is in [-100, 0].
C20_WrRange == (WrComputed /\ HighAboveLow) => WrInRange

\* C20 as the code has it: for every series whose points have
\* low <= close <= high and every period, each present wr is in [-100, 0].
C20_WrRangeCloseInside == (WrComputed /\ HighAboveLow /\ CloseInside) => WrInRange

\* a close in the middle of the period's range: wr = -50
C20_Witness ==
    /\ WrComputed
    /\ HighAboveLow
    /\ CloseInside
    /\ Len(engine.data) = 2
    /\ engine.window = 2
    /\ engine.outcome.value[2].wr = Real(-100, 0, 0, 2)

----------------------------------------------------------------------------
(* Missing columns *)

\* the series of the analysis in progress lacks a required column and the
\* analysis got as far as needing it
ColumnMissing == call.by # "none" /\ call.hist.missing # "" /\ calls.indicators + calls.hist >= 1

\* what holds of a missing column outside a scan: the indicator function
\* raises, and the exception leaves Strategy.analyze and analyze_stock
MissingColumnRaises ==
    /\ (engine.fn # "none" /\ ~EngineColumnsPresent) =>
          engine.outcome.kind = "raise" /\ returned = engine.outcome
    /\ (pc = "strategy_done" /\ ColumnMissing /\ calls.indicators = 1) =>
          /\ returned.kind = "raise"
          /\ returned.msg \in
                {"Column 'close' not found in DataFrame for Bollinger Bands calculation.",
                 "DataFrame must contain ['high', 'low', 'close'] columns for Williams %R calculation."}
    /\ (pc = "analyzed" /\ ColumnMissing) => returned.kind = "raise"

\* C17 as stated: a missing column is never caught.  The failure leaves the
\* indicator function, Strategy.analyze and analyze_stock as an exception, and
\* a scan that meets it ends with that exception instead of collecting a
\* result for the symbol.
C17_NeverCaught ==
    /\ MissingColumnRaises
    /\ (pc \in {"scan", "scan_done"} /\ pos > 0 /\ ColumnMissing) =>
          pc = "scan_done" /\ returned.kind = "raise"

\* C17 as the code has it: a missing column leaves the indicator function,
\* Strategy.analyze and analyze_stock as an exception; scan_stocks catches it
\* like any other exception, appends that symbol's ERROR result carrying the
\* message, goes on, and returns the list.
C17_CaughtOnlyByScan ==
    /\ MissingColumnRaises
    /\ (pc \in {"scan", "scan_done"} /\ pos > 0 /\ ColumnMissing) =>
          /\ returned.kind # "raise"
          /\ Len(results) = pos
          /\ results[pos] = ScanError(stock_codes[pos], call.outcome.msg)
          /\ pc = "scan_done" => returned = Return(results)

\* a returned scan whose last symbol's records had no close
C17_Witness ==
    /\ pc = "scan_done"
    /\ pos = 2
    /\ ColumnMissing
    /\ call.hist.missing = "close"
    /\ returned.kind = "return"
    /\ returned.value[2].signal = "ERROR"
    /\ returned.value[1].signal # "ERROR"

----------------------------------------------------------------------------
(* Result shape *)

\* the result dicts the finished call handed to its caller
ResultsReturned ==
    IF returned.kind # "return" THEN {}
    ELSE IF pc \in {"strategy_done", "analyzed"} THEN {returned.value}
    ELSE IF pc = "scan_done" THEN {returned.value[i] : i \in 1..Len(returned.value)}
    ELSE {}

\* the keys of the declared result model (models/trade.py: TradingSignal)
SignalResultFields ==
    {"stock_code", "timestamp", "price_at_signal", "current_market_price", "signal",
     "reason", "indicators"}

\* C11: every result returned by analyze_stock, scan_stocks and
\* Strategy.analyze, whatever its outcome, has the same seven keys and a signal
\* among the six values.
C11_StableFields ==
    \A r \in ResultsReturned :
        /\ DOMAIN r = SignalResultFields
        /\ r.signal \in AllSignals

----------------------------------------------------------------------------
(* Delegation to a strategy *)

\* the analysis that ran last had a price and a non-empty prepared series
DelegationCase ==
    /\ call.by = "service"
    /\ call.price.kind \in {"float", "str"}
    /\ call.hist.kind = "data"
    /\ call.hist.n > 0
    /\ FetchAndPrepare(call.hist).kind = "return"

\* what strategy.analyze of strategy self returns for the last analysis's
\* symbol, prepared series and price
Delegated(self) ==
    StrategyAnalyze(self, call.stock_code, FetchAndPrepare(call.hist).value,
                    call.current_price)

\* C12: a TradingService constructed with a strategy holds that strategy, and
\* one constructed without holds a default BollingerWilliamsStrategy; with a
\* price and a non-empty series, analyze_stock returns what the held
\* strategy's analyze returns for (symbol, series, price), unchanged, and every
\* symbol of a scan gets that strategy's result.
C12_Delegates ==
    /\ pc = "constructed" =>
          /\ returned.kind = "return"
          /\ service.strategy = IF service.requested = NoStrategy
                                THEN DefaultStrategy ELSE service.requested
    /\ (pc = "analyzed" /\ service.requested = NoStrategy /\ DelegationCase) =>
          returned = Delegated(DefaultStrategy)
    /\ (pc = "scan" /\ pos > 0 /\ DelegationCase) =>
          results[pos] = Delegated(DefaultStrategy).value

\* C13: set_strategy(S) returns normally and makes S the service's strategy,
\* and an analyze_stock call made after it is decided by S: with a price and a
\* non-empty series its signal is the one S.analyze gives.
C13_SetStrategySwaps ==
    /\ pc = "set_done" =>
          /\ returned.kind = "return"
          /\ service.strategy = service.requested
    /\ (pc = "analyzed" /\ service.requested # NoStrategy /\ DelegationCase) =>
          /\ returned.kind = "return"
          /\ returned.value.signal = Delegated(service.requested).value.signal

----------------------------------------------------------------------------
(* Failures of the brokerage client *)

\* the last analysis asked kis_api for the history and the request failed in
\* transport or for want of a token
FetchFailed ==
    /\ call.by = "service"
    /\ call.hist.kind = "data"
    /\ call.hist.net \in {"transport", "auth"}

\* C14: a transport or auth failure while fetching the history is reported as
\* a failure, not as 'no data': analyze_stock does not answer NO_DATA for it,
\* and within a scan that symbol's result is ERROR.
C14_FetchFailureDistinct ==
    FetchFailed =>
        /\ ~(call.outcome.kind = "return" /\ call.outcome.value.signal = "NO_DATA")
        /\ (pc \in {"scan", "scan_done"} /\ pos > 0) => results[pos].signal = "ERROR"

\* the order or portfolio request went to kis_api and the brokerage side
\* failed: no token could be had, the request failed, or the order_type was
\* rejected
BrokerageFailed ==
    /\ pc = "order_done"
    /\ order.client.kind = "kis_api"
    /\ \/ ensure_token_valid(order.client.env).kind = "raise"
       \/ order.client.env.net # "ok"
       \/ order.fn = "execute_order" /\ order.args.order_type \notin {"01", "02"}

\* C15: execute_order and get_portfolio_details report every brokerage
\* failure as a value, {success: false, error} for an order and {error, ...}
\* for the portfolio, and never raise.
C15_StructuredFailure ==
    BrokerageFailed =>
        /\ returned.kind = "return"
        /\ "error" \in DOMAIN returned.value
        /\ order.fn = "execute_order" => returned.value.success = FALSE

\* C16: execute_order calls place_order exactly once, with the symbol, side,
\* quantity, price and order condition it was given, and hands back what
\* place_order answered (or raised) unchanged; it requests no price and no
\* history and runs no analysis.
C16_Passthrough ==
    (pc = "order_done" /\ order.fn = "execute_order") =>
        /\ Len(order.received) = 1
        /\ order.received[1] = order.args
        /\ returned = order.client_outcome
        /\ calls = NoCalls
        /\ call = NoCall

\* a limit buy order that the brokerage accepted
C16_Witness ==
    /\ pc = "order_done"
    /\ order.fn = "execute_order"
    /\ order.client.kind = "kis_api"
    /\ order.args.order_type = "02"
    /\ order.args.price = 10000
    /\ order.args.order_condition = "00"
    /\ returned.kind = "return"
    /\ returned.value.success

----------------------------------------------------------------------------
(* Side effects of the indicator functions *)

\* the frame the caller passed, as it is after the call, has a column the
\* frame did not have when it was passed
ColumnsAdded ==
    \E i \in 1..Len(engine.passed) :
       DOMAIN engine.passed[i] # DOMAIN engine.data[i]

\* C21: after calculate_bollinger_bands or calculate_williams_r returns, the
\* frame object that was passed in has no added columns and no changed values
\* (the derived columns are in a new structure).
C21_InputReadOnly ==
    EngineReturned => (engine.passed = engine.data /\ ~ColumnsAdded)

----------------------------------------------------------------------------
(* Data preparation called on its own: _fetch_and_prepare_data *)

\* the direct _fetch_and_prepare_data call returned a frame
PreparedReturned == prepared.outcome.kind = "return"

\* the rows of the returned frame
PreparedRows == prepared.outcome.value

\* the raw list holds two records of one date
RawDateRepeated ==
    \E i, j \in 1..Len(prepared.raw) :
       i < j /\ prepared.raw[i].date = prepared.raw[j].date

\* C22: every series _fetch_and_prepare_data returns is strictly increasing by
\* date, no date twice: of several raw records of one date only the last is
\* kept.
C22_StrictlyIncreasing ==
    PreparedReturned =>
        \A i \in 1..(Len(PreparedRows) - 1) :
           PreparedRows[i].date.day < PreparedRows[i + 1].date.day

\* every raw record has a date of the format and numeric prices
RawAllValid ==
    \A i \in 1..Len(prepared.raw) :
       /\ prepared.raw[i].date.k = "ymd"
       /\ prepared.raw[i].close.k = "num"
       /\ prepared.raw[i].high.k = "num"
       /\ prepared.raw[i].low.k = "num"

\* the row is the raw record: indexed by the record's date as a timestamp, its
\* prices numeric and equal to the record's
RowOfRecord(row, rec) ==
    /\ row.date = [k |-> "ts", day |-> rec.date.day]
    /\ row.close.k = "num" /\ row.close = rec.close
    /\ row.high.k = "num" /\ row.high = rec.high
    /\ row.low.k = "num" /\ row.low = rec.low

\* C23: for a raw list of n valid daily records with distinct dates,
\* _fetch_and_prepare_data returns a frame of exactly n rows, ascending by
\* date, indexed by date, every price numeric and equal to the raw value.
C23_RoundTrip ==
    (pc = "prepared" /\ RawAllValid /\ ~RawDateRepeated) =>
        /\ PreparedReturned
        /\ Len(PreparedRows) = Len(prepared.raw)
        /\ \A i \in 1..(Len(PreparedRows) - 1) :
              PreparedRows[i].date.day < PreparedRows[i + 1].date.day
        /\ \A i \in 1..Len(prepared.raw) :
              \E j \in 1..Len(PreparedRows) : RowOfRecord(PreparedRows[j], prepared.raw[i])

\* three valid records of three dates, handed over newest first
C23_Witness ==
    /\ pc = "prepared"
    /\ RawAllValid /\ ~RawDateRepeated
    /\ Len(prepared.raw) = 3
    /\ prepared.raw[1].date.day > prepared.raw[2].date.day
    /\ prepared.raw[2].date.day > prepared.raw[3].date.day
    /\ prepared.raw[1].close # prepared.raw[2].close
    /\ PreparedReturned
    /\ Len(PreparedRows) = 3

\* the record's date or one of its prices cannot be parsed
BadRecord(rec) ==
    rec.date.k = "bad" \/ rec.close.k = "text" \/ rec.high.k = "text" \/ rec.low.k = "text"

\* the positions of the raw list whose record parses
GoodPositions == {i \in 1..Len(prepared.raw) : ~BadRecord(prepared.raw[i])}

\* C24: when the raw list holds a record whose date or numeric field cannot be
\* parsed, _fetch_and_prepare_data still returns, with all the other records
\* as rows and without the bad one: the frame is shorter by that record.
C24_BadRowDropped ==
    (pc = "prepared" /\ \E i \in 1..Len(prepared.raw) : BadRecord(prepared.raw[i])) =>
        /\ PreparedReturned
        /\ Len(PreparedRows) = Cardinality(GoodPositions)
        /\ \A i \in GoodPositions :
              \E j \in 1..Len(PreparedRows) : RowOfRecord(PreparedRows[j], prepared.raw[i])

\* C25: _fetch_and_prepare_data returns an empty frame, and does not raise,
\* whenever the raw list is empty or none of its records can be parsed.
C25_EmptyWhenUnparseable ==
    (pc = "prepared" /\ \A i \in 1..Len(prepared.raw) : BadRecord(prepared.raw[i])) =>
        (PreparedReturned /\ PreparedRows = <<>>)

----------------------------------------------------------------------------
(* Collaborator requests per analysis *)

\* this step is one analyze_stock call: on its own, or one pass of the loop of
\* scan_stocks
AnalysisStep ==
    \/ pc \in {"idle", "set_done"} /\ pc' = "analyzed"
    \/ pc = "scan" /\ pos' = pos + 1

\* the price the client answered with is there and converts to a number
PricePresent(pr) == pr.kind \in {"float", "str"}

\* C26: every analyze_stock call makes its own requests: one get_stock_price
\* request and, only when the price is present, one history request; its
\* outcome comes from the answers to these requests and from nothing fetched
\* by an earlier call, the same symbol earlier in one scan_stocks included.
C26_NoCaching ==
    [][AnalysisStep =>
          /\ call'.by = "service"
          /\ calls'.price = calls.price + 1
          /\ calls'.hist = calls.hist + (IF PricePresent(call'.price) THEN 1 ELSE 0)
          /\ (call'.hist.kind # "not_called") <=> PricePresent(call'.price)
          /\ call'.outcome = ServiceRuns[call'.stock_code, call'.price, call'.hist].outcome]_vars

\* a scan that took the same symbol twice and asked for price and history
\* both times, with different answers
C26_Witness ==
    /\ pc = "scan"
    /\ pos = 2
    /\ stock_codes[1] = stock_codes[2]
    /\ calls.price = 2
    /\ calls.hist = 2
    /\ call.outcome.kind = "return"
    /\ results[1] # call.outcome.value

----------------------------------------------------------------------------
(* The execute_trade endpoint *)

\* an execute_trade request has been answered
EndpointAnswered == endpoint.fn = "execute_trade_endpoint"

\* the service returned a dict whose 'success' is true
ServiceSucceeded ==
    /\ endpoint.service_outcome.kind = "return"
    /\ "success" \in DOMAIN endpoint.service_outcome.value
    /\ endpoint.service_outcome.value.success

\* the service returned a dict that does not report success
ServiceReportedFailure ==
    endpoint.service_outcome.kind = "return" /\ ~ServiceSucceeded

\* the dict the service returned carries an order number
OrderIdPresent ==
    /\ "order_id" \in DOMAIN endpoint.service_outcome.value
    /\ endpoint.service_outcome.value.order_id # ""

----------------------------------------------------------------------------
(* The token cache of the KIS client *)

\* this step is one call of an API function of core.kis_api
RequestStep == kis'.n = kis.n + 1

\* the module holds a token whose expiry time has not passed
TokenHeldAndFresh(k) ==
    /\ k.ACCESS_TOKEN = "held"
    /\ k.TOKEN_EXPIRY_TIME # NoExpiry
    /\ k.now < k.TOKEN_EXPIRY_TIME

----------------------------------------------------------------------------
(* The rule in the service and in the strategy *)

\* the history answers of which _fetch_and_prepare_data makes a series
PreparedResponses == {h \in HistResponses : FetchAndPrepare(h).kind = "return"}

\* BollingerWilliamsStrategy() with its default parameters, run on the series
\* _fetch_and_prepare_data makes of each history answer and on the price 7 the
\* model's price answers carry
StrategyOnPrepared ==
    LET table == [code \in Symbols, h \in PreparedResponses
                    |-> StrategyAnalyze(DefaultStrategy, code, FetchAndPrepare(h).value, Num(7))]
    IN table @@ table

\* the analysis that ran last is an analyze_stock call that had a price and a
\* prepared series
ServiceHadSeries ==
    /\ call.by = "service"
    /\ call.current_price = Num(7)
    /\ call.hist \in PreparedResponses

\* C29: for every prepared series and current price, the rule built into
\* analyze_stock and BollingerWilliamsStrategy.analyze with default
\* parameters give the same signal, and for BUY, SELL and HOLD the same
\* timestamp, price_at_signal, current_market_price and indicator values.
C29_SameDecision ==
    ServiceHadSeries =>
        LET theirs == StrategyOnPrepared[call.stock_code, call.hist]
            ours == call.outcome
        IN /\ ours.kind = theirs.kind
           /\ ours.kind = "return" =>
                 /\ ours.value.signal = theirs.value.signal
                 /\ ours.value.signal \in Signals =>
                       /\ ours.value.timestamp = theirs.value.timestamp
                       /\ ours.value.price_at_signal = theirs.value.price_at_signal
                       /\ ours.value.current_market_price = theirs.value.current_market_price
                       /\ ours.value.indicators = theirs.value.indicators

\* an analyze_stock call that ended in SELL on a last close other than the
\* current price
C29_Witness ==
    /\ ServiceHadSeries
    /\ call.outcome.kind = "return"
    /\ call.outcome.value.signal = "SELL"
    /\ call.outcome.value.price_at_signal # call.outcome.value.current_market_price
    /\ StrategyOnPrepared[call.stock_code, call.hist].value.signal = "SELL"

----------------------------------------------------------------------------
(* Two scans in progress on one service *)

\* the list a call returned holds one entry per code of that call's argument,
\* in the argument's order, each made by that call
OwnResultsOnly(i) ==
    LET out == scans[i].returned.value
        codes == scans[i].stock_codes
    IN /\ Len(out) = Len(codes)
       /\ \A k \in 1..Len(out) :
             /\ out[k].by = i
             /\ out[k].code = codes[k]
             /\ out[k].result.stock_code = codes[k]

\* C30: when two scan_stocks calls run interleaved on the same service, each
\* returns exactly one result per symbol of its own input, in its own input
\* order, and no result made for one call appears in the other's output.
C30_ScansIsolated ==
    \A i \in Invocations : scans[i].at = "returned" => OwnResultsOnly(i)

\* both calls have returned full lists, and each appended an entry while the
\* other was between an analysis and its append
C30_Witness ==
    /\ pc = "concurrent_done"
    /\ \A i \in Invocations : scans[i].interleaved
    /\ Len(scans["manual"].returned.value) = MaxScan
    /\ Len(scans["scheduler"].returned.value) = Len(stocks_to_monitor)
    /\ scans["manual"].returned.value[1].result.signal = "ERROR"
    /\ scans["scheduler"].returned.value[1].result.signal = "SELL"

====
